---- MODULE Spec2Model ----
(***************************************************************************)
(* A model of toefl_scouts: the dedup store (src/database.py), the         *)
(* multi-strategy fetch-and-merge and the comment-tree flattener           *)
(* (src/reddit_scraper.py), and the run of main() (main.py).               *)
(*                                                                         *)
(* Time is counted in whole days: datetime.now() is the variable `now`,    *)
(* and timedelta(days=d) is the integer d.                                 *)
(*                                                                         *)
(* Four specifications share the variables:                                *)
(*   SpecStore    the Database object under any sequence of calls          *)
(*   SpecMerge    one call of RedditScraper.fetch_posts, strategy by       *)
(*                strategy                                                 *)
(*   SpecFlatten  RedditScraper._parse_comments on bounded reply trees     *)
(*   Spec         successive runs of main() against one database file      *)
(***************************************************************************)
EXTENDS Integers, Sequences, FiniteSets, TLC

\* ---------------------------------------------------------------- bounds
\* Config.top_n of the runs of Spec.
TopN == 1
\* Most chunks _split_message cuts a report into in Spec.
MaxChunks == 2
\* Most comments in a reply tree handed to _parse_comments by SpecFlatten.
MaxNodes == 3
\* The clock stops at MaxTime (days).
MaxTime == 5
\* Largest `days` argument handed to cleanup_old_records by SpecStore.
MaxDays == 2
\* Longest batch handed to mark_batch_as_pushed / filter_new_posts by SpecStore.
MaxBatch == 2
\* time.time() stops at MaxClock (half seconds) in SpecFetch and SpecThreads.
MaxClock == 6
\* Most calls of _get_json in SpecFetch and SpecThreads.
MaxRequests == 3
\* The longest batch handed to analyze_posts_batch.
MaxItems == 3
\* Largest Config.top_n, and most posts that qualify in a run, in SpecDigest.
MaxTopN == 11
MaxRanked == 11
\* Most lines of a report handed to _split_message in SpecSplit.
MaxLines == 3

\* ------------------------------------------------------------- constants
\* Config.ttl_days (default)
TtlDays == 3

\* Config.min_comment_score (default), the min_score of _parse_comments
MinCommentScore == 3

\* Config.min_upvotes (default)
MinUpvotes == 5
\* Config.min_comments (default)
MinComments == 2
\* The shortest comment body meets_comment_criteria keeps
MinBodyLen == 50
\* The score from which analyze_posts_batch / analyze_comments_batch keep an item
MinOpportunity == 5

\* REQUEST_DELAY = 1.0 seconds, in the unit of the fetcher's clock: half a second
REQUEST_DELAY == 2

\* posts[:10] in _build_report_message
RenderCap == 10

\* The max_length _send_message hands to _split_message
max_length == 1900

\* Post ids the forum serves.
PostIds == {"A", "B", "C", "D"}
\* Post ids used against the Database object in SpecStore.
StoreIds == {"A", "B"}

VARIABLES
    now,            \* datetime.now(), in days
    pushed_posts,   \* table pushed_posts: a set of rows [post_id, pushed_at]
    db_call,        \* SpecStore: the last Database call, its arguments, the
                    \* table it found, and what it returned
    subreddits,     \* Config.subreddits
    fp_pc,          \* fetch_posts: where the call stands
    fp_i,           \* fetch_posts: index of subreddit_name in subreddits
    fp_j,           \* fetch_posts: index of (strategy_name, url) in strategies
    all_posts,      \* fetch_posts: the dict all_posts, in insertion order
    counts,         \* fetch_posts: the dict counts of the current subreddit
    yield_log,      \* fetch_posts: the logger.info lines, one per subreddit
    posts_list,     \* fetch_posts: the returned list
    fetched,        \* the GET requests made so far, in order, each with what
                    \* the forum answered and all_posts before and after it
    tree,           \* SpecFlatten: the reply tree handed to _parse_comments
    fl_pc,          \* SpecFlatten: "call" before the call, "done" after it
    flat,           \* SpecFlatten: the list _parse_comments returned
    pc,             \* main: the statement the run stands before
    posts,          \* main: posts
    comments,       \* main: comments
    top_posts,      \* main: top_posts
    top_comments,   \* main: top_comments
    webhook,        \* the POSTs of this run to the Discord webhook, in order:
                    \* TRUE for a 2xx answer, FALSE for a RequestException
    merged,         \* what fetch_posts returned in this run
    new_posts,      \* what filter_new_posts returned in this run
    last_marked,    \* for each post id, the time of the latest
                    \* mark_batch_as_pushed that held it in any run, or -1
    last_sent,      \* for each post id, the time of the latest run that handed
                    \* a comment of that post to the notifier, or -1
    prune_cutoff,   \* main: the cutoff_date computed by the
                    \* cleanup_old_records of this run; <<>> before it
    stages,         \* main: the stages this run has executed, in order (the
                    \* banner and cardinality lines it has logged)
    store_error,    \* main: <<op>> once the Database operation op of this run
                    \* has raised, <<>> before
    exit_status,    \* the exit status of the process of this run: <<>> while
                    \* it runs, <<0>> after main returned, <<1>> after sys.exit(1)
    txn,            \* SpecCrash: the transaction the open sqlite3 connection
                    \* holds: the operation, the table as the connection sees
                    \* it, and the rows executemany has still to write
    clock,          \* time.time(), in half seconds
    last_request_time,  \* RedditScraper.last_request_time
    threads,        \* the threads that call _get_json on the one scraper
    rl_pc,          \* for each thread, the statement of _get_json it stands at
    elapsed,        \* for each thread, the local `elapsed` of _rate_limit
    wake,           \* for each thread, the time its time.sleep() ends at
    requests,       \* the GETs made so far, in the order they were started:
                    \* thread, start, end, what the GET ended in and what
                    \* _get_json gave its caller
    batch,          \* analyze_posts_batch: its argument `posts`
    batch_pc,       \* analyze_posts_batch: "idle", "loop" or "returned"
    api_replies,    \* what the scoring API did for each item handled so far
    analyzed_posts, \* analyze_posts_batch: its local analyzed_posts
    frames,         \* SpecWalk: the call stack of _parse_comments, innermost
                    \* call first: the children still to visit and `depth`
    descents,       \* SpecWalk: the comments on whose replies a recursive
                    \* call was made, in order
    top_n,          \* SpecDigest: Config.top_n
    rendered,       \* SpecDigest: the ids of the posts _build_report_message
                    \* put into the message
    message,        \* SpecSplit: the message handed to _split_message, as
                    \* the lengths of its lines (message.split('\n'))
    chunks,         \* SpecSplit: the lengths of the chunks it returned
    out_pc          \* SpecDigest, SpecSplit: where the notifier stands

dbVars    == <<now, pushed_posts>>
mergeVars == <<subreddits, fp_pc, fp_i, fp_j, all_posts, counts, yield_log,
               posts_list, fetched>>
flatVars  == <<tree, fl_pc, flat>>
runVars   == <<pc, posts, comments, top_posts, top_comments, webhook, merged,
               new_posts, last_marked, last_sent, prune_cutoff, stages,
               store_error, exit_status>>
\* The variables of the specifications of one component, which the others
\* leave alone.
throttleVars == <<clock, last_request_time, threads, rl_pc, elapsed, wake,
                  requests>>
scoreVars == <<batch, batch_pc, api_replies, analyzed_posts>>
walkVars  == <<frames, descents>>
outVars   == <<top_n, rendered, message, chunks, out_pc>>
sideVars  == <<txn, throttleVars, scoreVars, walkVars, outVars>>
\* What the statements of Database leave alone, and those of _get_json.
nonStoreVars   == <<mergeVars, flatVars, runVars, throttleVars, scoreVars,
                    walkVars, outVars>>
nonFetcherVars == <<now, pushed_posts, db_call, txn, mergeVars, flatVars, runVars,
                    scoreVars, walkVars, outVars>>
vars == <<now, pushed_posts, db_call, mergeVars, flatVars, runVars, sideVars>>

\* ------------------------------------------------------------- sequences
RECURSIVE SeqFilterIds(_, _)
\* [p for p in posts if p['id'] not in ids]
SeqFilterIds(ps, ids) ==
    IF ps = <<>> THEN <<>>
    ELSE LET rest == SeqFilterIds(Tail(ps), ids)
         IN  IF Head(ps).id \notin ids THEN <<Head(ps)>> \o rest ELSE rest

\* The ids of a list of post dictionaries.
IdsOf(ps) == {ps[k].id : k \in DOMAIN ps}

\* ------------------------------------------------------------- Database
\* A row of pushed_posts (post_id TEXT PRIMARY KEY, pushed_at TIMESTAMP).
Row(id, t) == [post_id |-> id, pushed_at |-> t]

\* INSERT OR IGNORE: an existing row for the key is kept as it is.
InsertOrIgnore(tbl, id, t) ==
    IF \E r \in tbl : r.post_id = id THEN tbl ELSE tbl \cup {Row(id, t)}

\* INSERT OR REPLACE INTO pushed_posts (post_id, pushed_at) VALUES (?, ?):
\* the row holding the primary key, if any, is deleted, then the row is inserted.
InsertOrReplace(tbl, id, t) ==
    {r \in tbl : r.post_id # id} \cup {Row(id, t)}

\* Database.mark_as_pushed(post_id), run at time t.
mark_as_pushed(tbl, id, t) == InsertOrReplace(tbl, id, t)

RECURSIVE ExecuteMany(_, _, _)
\* cursor.executemany(INSERT OR REPLACE ..., data): one statement per element.
ExecuteMany(tbl, ps, t) ==
    IF ps = <<>> THEN tbl
    ELSE ExecuteMany(InsertOrReplace(tbl, Head(ps).id, t), Tail(ps), t)

\* Database.mark_batch_as_pushed(posts), run at time t.
mark_batch_as_pushed(tbl, ps, t) ==
    IF ps = <<>> THEN tbl ELSE ExecuteMany(tbl, ps, t)

\* Database.get_pushed_ids(): SELECT post_id FROM pushed_posts, as a set.
get_pushed_ids(tbl) == {r.post_id : r \in tbl}

\* A filter that never reads the table: pushed_ids is empty.
FilterAgainstNothing(tbl, ps) == SeqFilterIds(ps, {})

RECURSIVE Reverse(_)
Reverse(ps) == IF ps = <<>> THEN <<>> ELSE Append(Reverse(Tail(ps)), Head(ps))

\* A filter that returns the new posts last first.
FilterNewestFirst(tbl, ps) == Reverse(SeqFilterIds(ps, get_pushed_ids(tbl)))

\* Database.filter_new_posts(posts).
filter_new_posts(tbl, ps) == SeqFilterIds(ps, get_pushed_ids(tbl))

\* A cleanup that deletes nothing.
CleanupNothing(tbl, days, t) == [table |-> tbl, deleted |-> 0]

\* A cleanup whose cutoff comparison is <= instead of <.
CleanupInclusive(tbl, days, t) ==
    LET cutoff_date == t - days
        gone == {r \in tbl : r.pushed_at <= cutoff_date}
    IN  [table |-> tbl \ gone, deleted |-> Cardinality(gone)]

\* Database.cleanup_old_records(days), run at time t:
\* DELETE FROM pushed_posts WHERE pushed_at < cutoff_date; returns cursor.rowcount.
cleanup_old_records(tbl, days, t) ==
    LET cutoff_date == t - days
        gone == {r \in tbl : r.pushed_at < cutoff_date}
    IN  [table |-> tbl \ gone, deleted |-> Cardinality(gone)]

\* Database.get_stats(): SELECT COUNT(*) FROM pushed_posts.
get_stats(tbl) == [total |-> Cardinality(tbl)]

\* No connection is open.
NoTxn == [op |-> "none", work |-> {}, rest |-> <<>>, at |-> 0]

IdleTxn == txn = NoTxn

\* The notifier is not running.
IdleOut ==
    /\ top_n = 0
    /\ rendered = {}
    /\ message = <<>>
    /\ chunks = <<>>
    /\ out_pc = "idle"

\* No call of _parse_comments is on the stack.
IdleWalk ==
    /\ frames = <<>>
    /\ descents = <<>>

\* analyze_posts_batch is not running.
IdleScore ==
    /\ batch = <<>>
    /\ batch_pc = "idle"
    /\ api_replies = <<>>
    /\ analyzed_posts = <<>>

\* No thread is in _get_json.
IdleThrottle ==
    /\ clock = 0
    /\ last_request_time = 0
    /\ threads = {}
    /\ rl_pc = <<>>
    /\ elapsed = <<>>
    /\ wake = <<>>
    /\ requests = <<>>

\* No call of the Database object has been made yet.
NoCall == [op |-> "none", ids |-> {}, days |-> 0, at |-> 0, before |-> {},
           ret |-> <<>>]

\* -------------------------------------------------------- RedditScraper
\* The (strategy_name, url) pairs of fetch_posts, in their declared order.
Strategies == <<"hot", "rising", "top", "new">>

\* The Python dict {}.
EmptyDict == [k \in {} |-> k]

\* d.get(k, default)
Get(d, k, default) == IF k \in DOMAIN d THEN d[k] ELSE default

\* d[k] = v
DictPut(d, k, v) == [x \in DOMAIN d \cup {k} |-> IF x = k THEN v ELSE d[x]]

\* The result of a call: a value, or an exception raised to the caller.
Returned(v) == [raised |-> FALSE, value |-> v]
Raised == [raised |-> TRUE, value |-> <<>>]

\* What the try block of _get_json can raise: session.get a ConnectionError or
\* a Timeout, raise_for_status an HTTPError (non-2xx), response.json() a
\* JSONDecodeError (undecodable body).
GetErrors == {"ConnectionError", "Timeout", "HTTPError", "JSONDecodeError"}

\* What one GET can end in: the try block raises `error` (ok = FALSE), or the
\* decoded body is returned (ok = TRUE).
FailureOf(error) == [ok |-> FALSE, json |-> EmptyDict, error |-> error]
Failure == FailureOf("Timeout")
Answer(json) == [ok |-> TRUE, json |-> json, error |-> ""]

\* A handler that catches the exceptions of the transport only:
\* except (ConnectionError, Timeout, HTTPError).
CaughtTransportOnly(error) == error \in {"ConnectionError", "Timeout", "HTTPError"}

\* `except Exception as e`: every exception the try block raises is one.
Caught(error) == error \in GetErrors

\* The try/except of _get_json, given what the GET ended in.
TryGet(outcome) ==
    IF outcome.ok THEN Returned(outcome.json)
    ELSE IF Caught(outcome.error) THEN Returned(EmptyDict)
    ELSE Raised

\* RedditScraper._get_json(url), given what the GET ended in.
get_json(outcome) == TryGet(outcome).value

\* The dictionary _parse_posts appends for one t3 entry (the fields the
\* pipeline reads later; the others are copied the same way).
ParsedPost(post_data) ==
    [id           |-> Get(post_data, "id", ""),
     subreddit    |-> Get(post_data, "subreddit", ""),
     score        |-> Get(post_data, "score", 0),
     num_comments |-> Get(post_data, "num_comments", 0)]

\* A JSON value that is not an object (null, a string, a number) where the
\* code expects a dict: calling .get on it raises AttributeError.
JsonNull == [json |-> "null"]

IsDict(x) == x # JsonNull

\* A JSON scalar with its type: datetime.fromtimestamp accepts numbers only.
JsonNumber(n) == [type |-> "number", value |-> n]

JsonString(str) == [type |-> "string", value |-> str]

\* datetime.fromtimestamp(x): TypeError on anything that is not a number.
FromTimestamp(x) == IF x.type = "number" THEN Returned(x.value) ELSE Raised

\* One pass of the loop body of _parse_posts: nothing for an entry that is not
\* a post, one dictionary for a post, or the exception the body raises
\* (item.get on a non-dict, post_data.get on a non-dict, fromtimestamp on a
\* non-number). The body has no try of its own.
ParseItem(item) ==
    IF ~IsDict(item) THEN Raised
    ELSE IF Get(item, "kind", "") # "t3" THEN Returned(<<>>)
    ELSE LET post_data == Get(item, "data", EmptyDict)
         IN  IF ~IsDict(post_data) THEN Raised
             ELSE IF FromTimestamp(
                         Get(post_data, "created_utc", JsonNumber(0))).raised
                  THEN Raised
                  ELSE Returned(<<ParsedPost(post_data)>>)

RECURSIVE ParseChildren(_)
\* The for loop of _parse_posts over data['data'].get('children', []): an
\* exception in any pass leaves the loop and the function.
ParseChildren(children) ==
    IF children = <<>> THEN Returned(<<>>)
    ELSE LET first == ParseItem(Head(children))
             rest  == ParseChildren(Tail(children))
         IN  IF first.raised \/ rest.raised THEN Raised
             ELSE Returned(first.value \o rest.value)

\* _parse_posts without its guard: data['data'] raises KeyError on {}.
ParsePostsNoGuard(data) ==
    IF "data" \notin DOMAIN data THEN Raised
    ELSE ParseChildren(Get(data.data, "children", <<>>))

\* RedditScraper._parse_posts(data).
parse_posts(data) ==
    IF DOMAIN data = {} \/ "data" \notin DOMAIN data THEN Returned(<<>>)
    ELSE IF ~IsDict(data.data) THEN Raised
    ELSE ParseChildren(Get(data.data, "children", <<>>))

\* all_posts.setdefault(post['id'], post): the first record of an id is kept.
DictSetDefault(d, post) ==
    IF \E k \in DOMAIN d : d[k].id = post.id THEN d ELSE Append(d, post)

\* all_posts.append(post) on a list: nothing is collapsed.
ListAppend(d, post) == Append(d, post)

\* all_posts[post['id']] = post on an insertion-ordered dict: an existing key
\* keeps its position and takes the new value, a new key is added at the end.
DictSet(d, post) ==
    IF \E k \in DOMAIN d : d[k].id = post.id
    THEN [k \in DOMAIN d |-> IF d[k].id = post.id THEN post ELSE d[k]]
    ELSE Append(d, post)

RECURSIVE MergePosts(_, _)
\* for post in posts: all_posts[post['id']] = post
MergePosts(d, ps) ==
    IF ps = <<>> THEN d
    ELSE MergePosts(DictSet(d, Head(ps)), Tail(ps))

\* The logger.info line of one subreddit: its unique posts and the counts.
YieldLine(name, d, cnt) ==
    [subreddit |-> name,
     unique    |-> Cardinality({k \in DOMAIN d : d[k].subreddit = name}),
     hot       |-> Get(cnt, "hot", 0),
     rising    |-> Get(cnt, "rising", 0),
     top       |-> Get(cnt, "top", 0),
     new       |-> Get(cnt, "new", 0)]

RECURSIVE FetchFrom(_, _, _, _, _)
\* The two nested loops of fetch_posts from position (i, j) on; served[<<i, j>>]
\* is what the GET of strategy j of subreddit i ends in. An exception inside
\* the try block abandons the rest of that subreddit.
FetchFrom(subs, served, i, j, d) ==
    IF i > Len(subs) THEN d
    ELSE LET parsed == parse_posts(get_json(served[<<i, j>>]))
         IN  IF parsed.raised THEN FetchFrom(subs, served, i + 1, 1, d)
             ELSE IF j < Len(Strategies)
                  THEN FetchFrom(subs, served, i, j + 1, MergePosts(d, parsed.value))
                  ELSE FetchFrom(subs, served, i + 1, 1, MergePosts(d, parsed.value))

\* RedditScraper.fetch_posts(subreddits, ...): list(all_posts.values()).
fetch_posts(subs, served) == FetchFrom(subs, served, 1, 1, <<>>)

\* fetch_posts is not running.
IdleMerge ==
    /\ subreddits = <<>>
    /\ fp_pc = "idle"
    /\ fp_i = 0
    /\ fp_j = 0
    /\ all_posts = <<>>
    /\ counts = EmptyDict
    /\ yield_log = <<>>
    /\ posts_list = <<>>
    /\ fetched = <<>>

\* _parse_comments is not running.
IdleFlatten ==
    /\ tree = <<>>
    /\ fl_pc = "idle"
    /\ flat = <<>>

\* main() is not running.
IdleRun ==
    /\ pc = "idle"
    /\ posts = <<>>
    /\ comments = <<>>
    /\ top_posts = <<>>
    /\ top_comments = <<>>
    /\ webhook = <<>>
    /\ merged = <<>>
    /\ new_posts = <<>>
    /\ last_marked = [id \in {} |-> -1]
    /\ last_sent = [id \in {} |-> -1]
    /\ prune_cutoff = <<>>
    /\ stages = <<>>
    /\ store_error = <<>>
    /\ exit_status = <<>>

\* ------------------------------------------------ comment-tree flattener
\* A reply tree is a table of its entries in document order: entry n lies in
\* the children of the listing that is the 'replies' of entry tree[n].parent,
\* or of the top listing when the parent is 0. Siblings keep their order.
ChildrenOf(t, p) ==
    SelectSeq([n \in 1..Len(t) |-> n], LAMBDA n : t[n].parent = p)

\* comment_data.get('replies', ''): a nested listing when the comment has
\* replies; when it has none, what the entry says its 'replies' field is: the
\* key is absent (the default '' is taken), the value is '' or the value is
\* another non-dictionary sentinel (a non-empty string). An entry that does
\* not say carries ''.
RepliesOf(t, n) ==
    LET field == IF ChildrenOf(t, n) # <<>> THEN "listing"
                 ELSE Get(t[n], "replies", "empty")
    IN  [is_dict  |-> field = "listing",
         truthy   |-> field \in {"listing", "sentinel"},
         children |-> ChildrenOf(t, n)]

\* A test that leaves out isinstance(replies, dict): `if replies`.
DescendIfTruthy(replies) == replies.truthy

\* if replies and isinstance(replies, dict)
ShouldDescend(replies) == replies.truthy /\ replies.is_dict

\* A record that takes the depth the payload carries, when it carries one.
ParsedCommentPayloadDepth(t, n, post, depth) ==
    [id |-> n, body |-> t[n].body, score |-> t[n].score, post_id |-> post.id,
     subreddit |-> post.subreddit, depth |-> Get(t[n], "depth", depth)]

\* The dictionary _parse_comments appends for entry n found at `depth`.
ParsedComment(t, n, post, depth) ==
    [id |-> n, body |-> t[n].body, score |-> t[n].score, post_id |-> post.id,
     subreddit |-> post.subreddit, depth |-> depth]

RECURSIVE ParseCommentItems(_, _, _, _, _)
\* The for loop of _parse_comments over the children `items` of one listing,
\* with the recursive call on the replies of each comment it keeps.
ParseCommentItems(t, items, post, min_score, depth) ==
    IF items = <<>> THEN <<>>
    ELSE LET n    == Head(items)
             rest == ParseCommentItems(t, Tail(items), post, min_score, depth)
         IN  IF t[n].kind # "t1" THEN rest                           \* continue
             ELSE IF t[n].score < min_score THEN rest                \* continue
             ELSE IF t[n].body \in {"[deleted]", "[removed]", ""} THEN rest
             ELSE LET replies == RepliesOf(t, n)
                      nested  == IF ShouldDescend(replies)
                                 THEN ParseCommentItems(t, replies.children, post,
                                                        min_score, depth + 1)
                                 ELSE <<>>
                  IN  <<ParsedComment(t, n, post, depth)>> \o nested \o rest

\* RedditScraper._parse_comments(data, post, min_score, depth) on the listing
\* whose children are the entries with parent p.
parse_comments(t, p, post, min_score, depth) ==
    ParseCommentItems(t, ChildrenOf(t, p), post, min_score, depth)

\* ---------------------------------------------------------- SpecFlatten
CommentKinds == {"t1", "more"}
CommentScores == {1, 5}
CommentBodies == {"some text", "[deleted]"}

\* The reply trees of exactly n entries.
TreesOf(n) ==
    {t \in [1..n -> [parent : 0..(n - 1), kind : CommentKinds,
                     score : CommentScores, body : CommentBodies]] :
         \A k \in 1..n : t[k].parent < k}

Trees == UNION {TreesOf(n) : n \in 0..MaxNodes}

ThePost == [id |-> "A", subreddit |-> "r1", score |-> 9, num_comments |-> 3]

InitFlatten ==
    /\ now = 0
    /\ pushed_posts = {}
    /\ db_call = NoCall
    /\ IdleTxn
    /\ IdleThrottle
    /\ IdleScore
    /\ IdleWalk
    /\ IdleOut
    /\ IdleMerge
    /\ tree \in Trees
    /\ fl_pc = "call"
    /\ flat = <<>>
    /\ IdleRun

\* comments = self._parse_comments(data[1], post, min_score)
Flatten ==
    /\ fl_pc = "call"
    /\ flat' = parse_comments(tree, 0, ThePost, MinCommentScore, 0)
    /\ fl_pc' = "done"
    /\ UNCHANGED <<tree, dbVars, db_call, mergeVars, runVars, sideVars>>

NextFlatten == Flatten

SpecFlatten == InitFlatten /\ [][NextFlatten]_vars

\* ------------------------------------------------------------- SpecWalk
\* _parse_comments call by call: `frames` is the stack of its active calls,
\* each with the children its for loop has still to visit and its `depth`.
\* Every entry is a comment that passes the filters, carries a depth of its
\* own in the payload, and says what its 'replies' field is.
PayloadDepths == {0, 9}
LeafReplies == {"absent", "empty", "sentinel"}

WalkTreesOf(n) ==
    {t \in [1..n -> [parent : 0..(n - 1), kind : {"t1"}, score : {5},
                     body : {"some text"}, depth : PayloadDepths,
                     replies : LeafReplies \cup {"listing"}]] :
         \A k \in 1..n :
             /\ t[k].parent < k
             /\ t[k].replies = "listing" <=> ChildrenOf(t, k) # <<>>}

WalkTrees == UNION {WalkTreesOf(n) : n \in 0..MaxNodes}

\* _parse_comments(data[1], post, min_score) is entered with depth = 0.
InitWalk ==
    /\ now = 0
    /\ pushed_posts = {}
    /\ db_call = NoCall
    /\ IdleTxn
    /\ IdleThrottle
    /\ IdleScore
    /\ IdleMerge
    /\ tree \in WalkTrees
    /\ fl_pc = "walk"
    /\ flat = <<>>
    /\ frames = <<[items |-> ChildrenOf(tree, 0), depth |-> 0]>>
    /\ descents = <<>>
    /\ IdleOut
    /\ IdleRun

\* One pass of `for item in data['data'].get('children', [])` in the
\* innermost call: the filters, the append, and the recursive call on the
\* replies when the test lets it be made.
VisitNext ==
    /\ fl_pc = "walk"
    /\ frames # <<>>
    /\ Head(frames).items # <<>>
    /\ LET top     == Head(frames)
           n       == Head(top.items)
           after   == [top EXCEPT !.items = Tail(top.items)]
           skipped == \/ tree[n].kind # "t1"
                      \/ tree[n].score < MinCommentScore
                      \/ tree[n].body \in {"[deleted]", "[removed]", ""}
           replies == RepliesOf(tree, n)
       IN  IF skipped
           THEN /\ frames' = <<after>> \o Tail(frames)
                /\ UNCHANGED <<flat, descents>>
           ELSE /\ flat' = Append(flat, ParsedComment(tree, n, ThePost, top.depth))
                /\ IF ShouldDescend(replies)
                   THEN /\ frames' = <<[items |-> replies.children,
                                        depth |-> top.depth + 1], after>>
                                          \o Tail(frames)
                        /\ descents' = Append(descents, n)
                   ELSE /\ frames' = <<after>> \o Tail(frames)
                        /\ descents' = descents
    /\ UNCHANGED <<tree, fl_pc, dbVars, db_call, mergeVars, runVars, txn,
                   throttleVars, scoreVars, outVars>>

\* `return comments` of the innermost call: its for loop is exhausted.
ReturnComments ==
    /\ fl_pc = "walk"
    /\ frames # <<>>
    /\ Head(frames).items = <<>>
    /\ frames' = Tail(frames)
    /\ fl_pc' = IF Tail(frames) = <<>> THEN "done" ELSE fl_pc
    /\ UNCHANGED <<tree, flat, descents, dbVars, db_call, mergeVars, runVars,
                   txn, throttleVars, scoreVars, outVars>>

NextWalk ==
    \/ VisitNext
    \/ ReturnComments

\* The interpreter goes on executing the call while a statement is left.
SpecWalk == InitWalk /\ [][NextWalk]_vars /\ WF_vars(NextWalk)

\* ------------------------------------------------------------ SpecMerge
\* What the forum serves. A raw listing entry {kind, data}:
Entry(kind, id, sub, score) ==
    [kind |-> kind,
     data |-> [id |-> id, subreddit |-> sub, score |-> score, num_comments |-> 3]]

Listing(children) == [kind |-> "Listing", data |-> [children |-> children]]

\* The listings of subreddit `sub`: posts {A,B}, {B,C}, and {C,D} followed by
\* an entry that is not a post. The same post carries a different score in
\* each listing it appears in.
Listings(sub) ==
    { Listing(<<Entry("t3", "A", sub, 1), Entry("t3", "B", sub, 1)>>),
      Listing(<<Entry("t3", "B", sub, 2), Entry("t3", "C", sub, 2)>>),
      Listing(<<Entry("t3", "C", sub, 3), Entry("t3", "D", sub, 3),
                Entry("more", "", sub, 0)>>) }

Outcomes(sub) == {Failure} \cup {Answer(l) : l \in Listings(sub)}

\* fetch_posts is entered: all_posts = {}, first subreddit, counts = {}.
InitMerge ==
    /\ now = 0
    /\ pushed_posts = {}
    /\ db_call = NoCall
    /\ IdleTxn
    /\ IdleThrottle
    /\ IdleScore
    /\ IdleWalk
    /\ IdleOut
    /\ subreddits = <<"r1", "r2">>
    /\ fp_pc = "strategy"
    /\ fp_i = 1
    /\ fp_j = 1
    /\ all_posts = <<>>
    /\ counts = EmptyDict
    /\ yield_log = <<>>
    /\ posts_list = <<>>
    /\ fetched = <<>>
    /\ IdleFlatten
    /\ IdleRun

\* One iteration of `for strategy_name, url in strategies`, the GET of which
\* ends in `outcome`.
FetchOne(outcome) ==
    /\ fp_pc = "strategy"
    /\
        LET data   == get_json(outcome)
            parsed == parse_posts(data)
            after  == IF parsed.raised THEN all_posts
                      ELSE MergePosts(all_posts, parsed.value)
        IN  /\ fetched' = Append(fetched,
                   [sub |-> fp_i, strategy |-> Strategies[fp_j],
                    outcome |-> outcome, before |-> all_posts, after |-> after])
            /\ all_posts' = after
            /\ IF parsed.raised
               THEN \* except Exception: logger.error, next subreddit
                    /\ counts' = EmptyDict
                    /\ fp_j' = 1
                    /\ fp_i' = fp_i + 1
                    /\ fp_pc' = IF fp_i < Len(subreddits) THEN "strategy" ELSE "return"
               ELSE /\ counts' = DictPut(counts, Strategies[fp_j], Len(parsed.value))
                    /\ fp_i' = fp_i
                    /\ fp_j' = IF fp_j < Len(Strategies) THEN fp_j + 1 ELSE fp_j
                    /\ fp_pc' = IF fp_j < Len(Strategies) THEN "strategy" ELSE "log"
    /\ UNCHANGED <<subreddits, yield_log, posts_list, dbVars, db_call, flatVars, runVars,
                   sideVars>>

\* One iteration of the strategy loop on a forum that serves well-formed
\* listings or fails.
FetchStrategy ==
    /\ fp_pc = "strategy"
    /\ \E outcome \in Outcomes(subreddits[fp_i]) : FetchOne(outcome)

\* The logger.info after the strategies of a subreddit, then the next subreddit.
LogSubreddit ==
    /\ fp_pc = "log"
    /\ yield_log' = Append(yield_log, YieldLine(subreddits[fp_i], all_posts, counts))
    /\ counts' = EmptyDict
    /\ fp_j' = 1
    /\ fp_i' = fp_i + 1
    /\ fp_pc' = IF fp_i < Len(subreddits) THEN "strategy" ELSE "return"
    /\ UNCHANGED <<subreddits, all_posts, posts_list, fetched, dbVars, db_call,
                   flatVars, runVars, sideVars>>

\* posts_list = list(all_posts.values()); return posts_list
ReturnPosts ==
    /\ fp_pc = "return"
    /\ posts_list' = all_posts
    /\ fp_pc' = "done"
    /\ UNCHANGED <<subreddits, fp_i, fp_j, all_posts, counts, yield_log, fetched,
                   dbVars, db_call, flatVars, runVars, sideVars>>

NextMerge ==
    \/ FetchStrategy
    \/ LogSubreddit
    \/ ReturnPosts

SpecMerge == InitMerge /\ [][NextMerge]_vars

\* ------------------------------------------------------------ SpecParse
\* fetch_posts on a forum whose listings may carry a malformed entry among
\* well-formed ones.

\* A post entry whose data carries created_utc.
EntryAt(id, sub, created_utc) ==
    [kind |-> "t3",
     data |-> [id |-> id, subreddit |-> sub, score |-> 1, num_comments |-> 3,
               created_utc |-> created_utc]]

\* The entries that are not what _parse_posts expects: null in place of the
\* entry, null in place of its data, a string in place of the timestamp.
MalformedEntries(sub) ==
    { JsonNull,
      [kind |-> "t3", data |-> JsonNull],
      EntryAt("X", sub, JsonString("yesterday")) }

\* A well-formed listing, and listings with one malformed entry between two
\* well-formed posts.
MixedListings(sub) ==
    { Listing(<<EntryAt("A", sub, JsonNumber(1)), EntryAt("B", sub, JsonNumber(2))>>) }
    \cup { Listing(<<EntryAt("C", sub, JsonNumber(1)), bad,
                     EntryAt("D", sub, JsonNumber(2))>>) :
              bad \in MalformedEntries(sub) }

MixedOutcomes(sub) == {Answer(l) : l \in MixedListings(sub)}

\* One iteration of the strategy loop on such a forum.
FetchMixed ==
    /\ fp_pc = "strategy"
    /\ \E outcome \in MixedOutcomes(subreddits[fp_i]) : FetchOne(outcome)

NextParse ==
    \/ FetchMixed
    \/ LogSubreddit
    \/ ReturnPosts

SpecParse == InitMerge /\ [][NextParse]_vars

\* ------------------------------------------------------------ SpecStore
\* Lists of post dictionaries handed to the Database object: only 'id' is read.
StorePost(id) == [id |-> id]

StoreBatches ==
    UNION {[1..n -> {StorePost(a) : a \in StoreIds}] : n \in 0..MaxBatch}

\* Database(db_path): _init_db creates an empty table on a fresh file.
InitStore ==
    /\ now = 0
    /\ pushed_posts = {}
    /\ db_call = NoCall
    /\ IdleTxn
    /\ IdleThrottle
    /\ IdleScore
    /\ IdleWalk
    /\ IdleOut
    /\ IdleMerge
    /\ IdleFlatten
    /\ IdleRun

\* A day passes.
Tick ==
    /\ now < MaxTime
    /\ now' = now + 1
    /\ UNCHANGED <<pushed_posts, db_call, mergeVars, flatVars, runVars, sideVars>>

CallMarkAsPushed ==
    \E id \in StoreIds :
        /\ pushed_posts' = mark_as_pushed(pushed_posts, id, now)
        /\ db_call' = [op |-> "mark", ids |-> {id}, days |-> 0, at |-> now,
                       before |-> pushed_posts, ret |-> <<>>]
        /\ UNCHANGED <<now, mergeVars, flatVars, runVars, sideVars>>

CallMarkBatchAsPushed ==
    \E ps \in StoreBatches :
        /\ pushed_posts' = mark_batch_as_pushed(pushed_posts, ps, now)
        /\ db_call' = [op |-> "mark_batch", ids |-> IdsOf(ps), days |-> 0,
                       at |-> now, before |-> pushed_posts, ret |-> ps]
        /\ UNCHANGED <<now, mergeVars, flatVars, runVars, sideVars>>

CallFilterNewPosts ==
    \E ps \in StoreBatches :
        /\ db_call' = [op |-> "filter", ids |-> IdsOf(ps), days |-> 0,
                       at |-> now, before |-> pushed_posts,
                       ret |-> filter_new_posts(pushed_posts, ps)]
        /\ UNCHANGED <<now, pushed_posts, mergeVars, flatVars, runVars, sideVars>>

CallCleanupOldRecords ==
    \E days \in 1..MaxDays :
        LET res == cleanup_old_records(pushed_posts, days, now)
        IN  /\ pushed_posts' = res.table
            /\ db_call' = [op |-> "cleanup", ids |-> {}, days |-> days,
                           at |-> now, before |-> pushed_posts,
                           ret |-> <<res.deleted>>]
            /\ UNCHANGED <<now, mergeVars, flatVars, runVars, sideVars>>

NextStore ==
    \/ Tick
    \/ CallMarkAsPushed
    \/ CallMarkBatchAsPushed
    \/ CallFilterNewPosts
    \/ CallCleanupOldRecords

SpecStore == InitStore /\ [][NextStore]_vars

\* ------------------------------------------------------------ SpecDedup
\* main, lines 117-125: the list fetch_posts returned is handed to
\* db.filter_new_posts, against a store that holds any set of the post ids.

\* What the four strategies of the one subreddit can end in.
ServedOnce == [{1} \X (1..Len(Strategies)) -> Outcomes("r1")]

InitDedup ==
    /\ now = 0
    /\ pushed_posts \in SUBSET {Row(id, 0) : id \in PostIds}
    /\ db_call = NoCall
    /\ IdleTxn
    /\ IdleThrottle
    /\ IdleScore
    /\ IdleWalk
    /\ IdleOut
    /\ IdleMerge
    /\ IdleFlatten
    /\ pc = "dedup_fetch"
    /\ posts = <<>>
    /\ comments = <<>>
    /\ top_posts = <<>>
    /\ top_comments = <<>>
    /\ webhook = <<>>
    /\ merged = <<>>
    /\ new_posts = <<>>
    /\ last_marked = [id \in {} |-> -1]
    /\ last_sent = [id \in {} |-> -1]
    /\ prune_cutoff = <<>>
    /\ stages = <<>>
    /\ store_error = <<>>
    /\ exit_status = <<>>

\* posts = scraper.fetch_posts(subreddits=..., ...)
DedupFetch ==
    /\ pc = "dedup_fetch"
    /\ \E served \in ServedOnce : merged' = fetch_posts(<<"r1">>, served)
    /\ pc' = "dedup_filter"
    /\ UNCHANGED <<posts, comments, top_posts, top_comments, webhook, new_posts,
                   last_marked, last_sent, prune_cutoff, stages, store_error, exit_status,
                   dbVars, db_call, mergeVars, flatVars, sideVars>>

\* posts = db.filter_new_posts(posts)
DedupFilter ==
    /\ pc = "dedup_filter"
    /\ new_posts' = filter_new_posts(pushed_posts, merged)
    /\ pc' = "dedup_done"
    /\ UNCHANGED <<posts, comments, top_posts, top_comments, webhook, merged,
                   last_marked, last_sent, prune_cutoff, stages, store_error, exit_status,
                   dbVars, db_call, mergeVars, flatVars, sideVars>>

NextDedup ==
    \/ DedupFetch
    \/ DedupFilter

SpecDedup == InitDedup /\ [][NextDedup]_vars

\* ------------------------------------------------------------ SpecCrash
\* The Database methods statement by statement, with the process killed at any
\* statement. sqlite3.connect opens a connection in the default (deferred)
\* isolation mode: the first INSERT or DELETE opens a transaction, whose writes
\* only the connection sees until conn.commit() makes all of them the content
\* of the file at once. pushed_posts is the content of the file: what a
\* connection opened afterwards reads.
InitCrash ==
    /\ now = 0
    /\ pushed_posts = {}
    /\ db_call = NoCall
    /\ IdleTxn
    /\ IdleThrottle
    /\ IdleScore
    /\ IdleWalk
    /\ IdleOut
    /\ IdleMerge
    /\ IdleFlatten
    /\ IdleRun

\* mark_batch_as_pushed(posts), lines 104-111: a non-empty list, connect,
\* now = datetime.now(), data.
BeginMarkBatch ==
    /\ txn = NoTxn
    /\ \E ps \in StoreBatches :
           /\ ps # <<>>
           /\ txn' = [op |-> "mark_batch", work |-> pushed_posts, rest |-> ps,
                      at |-> now]
           /\ db_call' = [op |-> "begin", ids |-> IdsOf(ps), days |-> 0,
                          at |-> now, before |-> pushed_posts, ret |-> ps]
    /\ UNCHANGED <<now, pushed_posts, nonStoreVars>>

\* An executemany that runs in autocommit mode: every row is in the file as
\* soon as it is written.
ExecuteNextAutocommit ==
    /\ txn.op = "mark_batch"
    /\ txn.rest # <<>>
    /\ txn' = [txn EXCEPT !.work = InsertOrReplace(@, Head(txn.rest).id, txn.at),
                          !.rest = Tail(@)]
    /\ pushed_posts' = InsertOrReplace(txn.work, Head(txn.rest).id, txn.at)
    /\ UNCHANGED <<now, db_call, nonStoreVars>>

\* cursor.executemany(INSERT OR REPLACE ...), lines 113-116: the next row of
\* data is written inside the transaction.
ExecuteNext ==
    /\ txn.op = "mark_batch"
    /\ txn.rest # <<>>
    /\ txn' = [txn EXCEPT !.work = InsertOrReplace(@, Head(txn.rest).id, txn.at),
                          !.rest = Tail(@)]
    /\ UNCHANGED <<now, pushed_posts, db_call, nonStoreVars>>

\* conn.commit(); conn.close(), lines 118-119.
CommitMarkBatch ==
    /\ txn.op = "mark_batch"
    /\ txn.rest = <<>>
    /\ pushed_posts' = txn.work
    /\ txn' = NoTxn
    /\ db_call' = [db_call EXCEPT !.op = "mark_batch"]
    /\ UNCHANGED <<now, nonStoreVars>>

\* cleanup_old_records(days), lines 166-176: connect, cutoff_date, the DELETE
\* inside a transaction, cursor.rowcount.
BeginCleanup ==
    /\ txn = NoTxn
    /\ \E days \in 1..MaxDays :
           LET res == cleanup_old_records(pushed_posts, days, now)
           IN  /\ txn' = [op |-> "cleanup", work |-> res.table, rest |-> <<>>,
                          at |-> now]
               /\ db_call' = [op |-> "begin", ids |-> {}, days |-> days,
                              at |-> now, before |-> pushed_posts,
                              ret |-> <<res.deleted>>]
    /\ UNCHANGED <<now, pushed_posts, nonStoreVars>>

\* conn.commit(), line 177.
CommitCleanup ==
    /\ txn.op = "cleanup"
    /\ pushed_posts' = txn.work
    /\ txn' = [txn EXCEPT !.op = "vacuum"]
    /\ db_call' = [db_call EXCEPT !.op = "cleanup"]
    /\ UNCHANGED <<now, nonStoreVars>>

\* cursor.execute('VACUUM'); conn.close(), lines 180-182: the file is rebuilt
\* with the same rows.
Vacuum ==
    /\ txn.op = "vacuum"
    /\ txn' = NoTxn
    /\ UNCHANGED <<now, pushed_posts, db_call, nonStoreVars>>

\* The process dies while the connection is open. The writes of the open
\* transaction are not in the file (SQLite rolls its journal back when the
\* file is opened next); db_call keeps what the connection had done. During
\* VACUUM the transaction of the DELETE is already committed.
Crash ==
    /\ txn # NoTxn
    /\ db_call' = IF txn.op = "vacuum"
                  THEN [db_call EXCEPT !.op = "crash in vacuum"]
                  ELSE [db_call EXCEPT !.op = "crash", !.ret = txn.rest,
                                       !.ids = get_pushed_ids(txn.work)]
    /\ txn' = NoTxn
    /\ UNCHANGED <<now, pushed_posts, nonStoreVars>>

\* A day passes (whether or not a connection is open).
TickCrash ==
    /\ now < MaxTime
    /\ now' = now + 1
    /\ UNCHANGED <<pushed_posts, db_call, txn, nonStoreVars>>

NextCrash ==
    \/ TickCrash
    \/ BeginMarkBatch
    \/ ExecuteNext
    \/ CommitMarkBatch
    \/ BeginCleanup
    \/ CommitCleanup
    \/ Vacuum
    \/ Crash

SpecCrash == InitCrash /\ [][NextCrash]_vars

\* ------------------------------------------------- SpecFetch, SpecThreads
\* _get_json statement by statement, called again and again by one thread
\* (SpecFetch, as main does) or by two threads on the same RedditScraper
\* (SpecThreads). The clock moves between any two statements.

\* What the GET of a listing url can end in: every kind of failure, or an
\* answer. With two threads one kind of failure stands for all of them:
\* _rate_limit does not read what the GET ended in.
FetchOutcomes ==
    {FailureOf(err) : err \in IF Cardinality(threads) = 1 THEN GetErrors
                              ELSE {"Timeout"}}
        \cup {Answer(Listing(<<Entry("t3", "A", "r1", 1)>>))}

\* RedditScraper(): last_request_time = 0, and time.time() is far from 0.
InitThrottle(T) ==
    /\ now = 0
    /\ pushed_posts = {}
    /\ db_call = NoCall
    /\ IdleTxn
    /\ clock = REQUEST_DELAY
    /\ last_request_time = 0
    /\ threads = T
    /\ rl_pc = [t \in T |-> "idle"]
    /\ elapsed = [t \in T |-> 0]
    /\ wake = [t \in T |-> 0]
    /\ requests = <<>>
    /\ IdleScore
    /\ IdleWalk
    /\ IdleOut
    /\ IdleMerge
    /\ IdleFlatten
    /\ IdleRun

InitFetch == InitThrottle({1})

InitThreads == InitThrottle({1, 2})

\* The threads that are inside _get_json.
InCall == {t \in threads : rl_pc[t] \notin {"idle", "raised"}}

\* Time passes.
TickClock ==
    /\ clock < MaxClock
    /\ clock' = clock + 1
    /\ UNCHANGED <<last_request_time, threads, rl_pc, elapsed, wake, requests,
                   nonFetcherVars>>

\* A caller enters _get_json(url): self._rate_limit() is its first statement.
CallGetJson(t) ==
    /\ rl_pc[t] = "idle"
    /\ Len(requests) + Cardinality(InCall) < MaxRequests
    /\ rl_pc' = [rl_pc EXCEPT ![t] = "elapsed"]
    /\ UNCHANGED <<clock, last_request_time, threads, elapsed, wake, requests,
                   nonFetcherVars>>

\* elapsed = time.time() - self.last_request_time
ReadElapsed(t) ==
    /\ rl_pc[t] = "elapsed"
    /\ elapsed' = [elapsed EXCEPT ![t] = clock - last_request_time]
    /\ rl_pc' = [rl_pc EXCEPT ![t] = "compare"]
    /\ UNCHANGED <<clock, last_request_time, threads, wake, requests,
                   nonFetcherVars>>

\* if elapsed < REQUEST_DELAY: time.sleep(REQUEST_DELAY - elapsed)
CompareAndSleep(t) ==
    /\ rl_pc[t] = "compare"
    /\ IF elapsed[t] < REQUEST_DELAY
       THEN /\ wake' = [wake EXCEPT ![t] = clock + (REQUEST_DELAY - elapsed[t])]
            /\ rl_pc' = [rl_pc EXCEPT ![t] = "sleeping"]
       ELSE /\ wake' = wake
            /\ rl_pc' = [rl_pc EXCEPT ![t] = "stamp"]
    /\ UNCHANGED <<clock, last_request_time, threads, elapsed, requests,
                   nonFetcherVars>>

\* time.sleep returns, not before the time asked for has passed.
WakeUp(t) ==
    /\ rl_pc[t] = "sleeping"
    /\ clock >= wake[t]
    /\ rl_pc' = [rl_pc EXCEPT ![t] = "stamp"]
    /\ UNCHANGED <<clock, last_request_time, threads, elapsed, wake, requests,
                   nonFetcherVars>>

\* self.last_request_time = time.time(); _rate_limit returns.
StampRequestTime(t) ==
    /\ rl_pc[t] = "stamp"
    /\ last_request_time' = clock
    /\ rl_pc' = [rl_pc EXCEPT ![t] = "get"]
    /\ UNCHANGED <<clock, threads, elapsed, wake, requests, nonFetcherVars>>

\* response = self.session.get(url, timeout=10): the request goes out.
StartGet(t) ==
    /\ rl_pc[t] = "get"
    /\ \E outcome \in FetchOutcomes :
           requests' = Append(requests,
               [thread |-> t, start |-> clock, end |-> clock, done |-> FALSE,
                outcome |-> outcome, result |-> TryGet(outcome)])
    /\ rl_pc' = [rl_pc EXCEPT ![t] = "getting"]
    /\ UNCHANGED <<clock, last_request_time, threads, elapsed, wake,
                   nonFetcherVars>>

\* The request of thread t that is under way.
Pending(t) == CHOOSE k \in DOMAIN requests :
                  requests[k].thread = t /\ ~requests[k].done

\* The request completes (answer, error or timeout) and _get_json returns
\* response.json(), or {} from its except clause, or lets the exception out.
EndGet(t) ==
    /\ rl_pc[t] = "getting"
    /\ requests' = [requests EXCEPT ![Pending(t)].end = clock,
                                    ![Pending(t)].done = TRUE]
    /\ rl_pc' = [rl_pc EXCEPT ![t] =
                     IF requests[Pending(t)].result.raised THEN "raised"
                     ELSE "idle"]
    /\ UNCHANGED <<clock, last_request_time, threads, elapsed, wake,
                   nonFetcherVars>>

NextFetch ==
    \/ TickClock
    \/ \E t \in threads : CallGetJson(t)
    \/ \E t \in threads : ReadElapsed(t)
    \/ \E t \in threads : CompareAndSleep(t)
    \/ \E t \in threads : WakeUp(t)
    \/ \E t \in threads : StampRequestTime(t)
    \/ \E t \in threads : StartGet(t)
    \/ \E t \in threads : EndGet(t)

SpecFetch == InitFetch /\ [][NextFetch]_vars

SpecThreads == InitThreads /\ [][NextFetch]_vars

\* ------------------------------------------------------------- main.py
\* meets_post_criteria(post, config), with Config.keywords empty (its default).
meets_post_criteria(post) ==
    /\ ~(post.score < MinUpvotes)
    /\ ~(post.num_comments < MinComments)

\* len(body) of the comment bodies the forum serves.
BodyLen(body) ==
    CASE body = "" -> 0
      [] body = "a long comment body" -> 60
      [] OTHER -> 9

\* meets_comment_criteria(comment, config)
meets_comment_criteria(comment) ==
    /\ ~(comment.score < MinCommentScore)
    /\ ~(BodyLen(comment.body) < MinBodyLen)
    /\ comment.body \notin {"[deleted]", "[removed]"}

RECURSIVE SelectPosts(_)
\* [p for p in posts if meets_post_criteria(p, config)]
SelectPosts(ps) ==
    IF ps = <<>> THEN <<>>
    ELSE IF meets_post_criteria(Head(ps)) THEN <<Head(ps)>> \o SelectPosts(Tail(ps))
         ELSE SelectPosts(Tail(ps))

RECURSIVE SelectComments(_)
\* [c for c in comments if meets_comment_criteria(c, config)]
SelectComments(cs) ==
    IF cs = <<>> THEN <<>>
    ELSE IF meets_comment_criteria(Head(cs))
         THEN <<Head(cs)>> \o SelectComments(Tail(cs))
         ELSE SelectComments(Tail(cs))

RECURSIVE FetchComments(_, _, _)
\* RedditScraper.fetch_comments_from_posts(posts, min_score): answers[k] is what
\* the GET for posts[k] ends in, its json the reply tree of data[1]. A failed
\* GET gives {} and the post is skipped.
FetchComments(ps, answers, min_score) ==
    IF ps = <<>> THEN <<>>
    ELSE LET data == get_json(Head(answers))
             rest == FetchComments(Tail(ps), Tail(answers), min_score)
         IN  IF DOMAIN data = {} THEN rest
             ELSE parse_comments(data.tree, 0, Head(ps), min_score, 0) \o rest

\* {**item, **analysis}
Enriched(item, analysis) ==
    [k \in DOMAIN item \cup DOMAIN analysis |->
        IF k \in DOMAIN analysis THEN analysis[k] ELSE item[k]]

\* What _analyze_single_post / _analyze_single_comment can return: None (the
\* API call or the JSON parse failed) or the parsed analysis.
NoAnalysis == [none |-> TRUE]
Analysis(score) == [score |-> score, product_fit |-> "medium"]
Analyses == {NoAnalysis} \cup {Analysis(x) : x \in {4, 6, 8}}

RECURSIVE AnalyzeBatch(_, _)
\* ContentAnalyzer.analyze_posts_batch / analyze_comments_batch: results[k] is
\* what the analysis of items[k] returned.
AnalyzeBatch(items, results) ==
    IF items = <<>> THEN <<>>
    ELSE LET analysis == Head(results)
             rest     == AnalyzeBatch(Tail(items), Tail(results))
         IN  IF analysis # NoAnalysis /\ Get(analysis, "score", 0) >= MinOpportunity
             THEN <<Enriched(Head(items), analysis)>> \o rest
             ELSE rest

RECURSIVE InsertRanked(_, _)
\* x placed behind every element whose score is at least its own.
InsertRanked(ranked, x) ==
    IF ranked = <<>> THEN <<x>>
    ELSE IF Head(ranked).score >= x.score
         THEN <<Head(ranked)>> \o InsertRanked(Tail(ranked), x)
         ELSE <<x>> \o ranked

RECURSIVE Rank(_)
\* rank_post_opportunities / rank_comment_opportunities:
\* sorted(items, key=score, reverse=True), which is stable.
Rank(items) ==
    IF items = <<>> THEN <<>>
    ELSE InsertRanked(Rank(SubSeq(items, 1, Len(items) - 1)), items[Len(items)])

\* items[:n]
Take(items, n) == SubSeq(items, 1, IF Len(items) < n THEN Len(items) ELSE n)

\* A stage of the run, as main logs it: what was done and for which item class
\* ("run" for the stages that belong to the run as a whole).
Stage(name, class) == [stage |-> name, class |-> class]

\* Every POST of _send_message got a 2xx answer.
Delivered == webhook # <<>> /\ \A k \in DOMAIN webhook : webhook[k]

\* ------------------------------------------------------------------ Spec
\* What the forum serves to the runs: posts A and B; B is below min_upvotes in
\* one listing.
RunPost(id, sub, score) ==
    [kind |-> "t3",
     data |-> [id |-> id, subreddit |-> sub, score |-> score, num_comments |-> 3]]

RunOutcomes(sub) ==
    {Failure,
     Answer(Listing(<<RunPost("A", sub, 9), RunPost("B", sub, 9)>>)),
     Answer(Listing(<<RunPost("B", sub, 1)>>))}

\* The reply trees served for a post: no comment, or one comment that passes
\* every filter.
RunTrees ==
    {<<>>,
     <<[parent |-> 0, kind |-> "t1", score |-> 5, body |-> "a long comment body"]>>}

CommentOutcomes == {Failure} \cup {Answer([tree |-> t]) : t \in RunTrees}

\* The first scheduled run starts on a fresh database file, with one subreddit
\* configured; the later runs find the file the earlier ones left.
Init ==
    /\ now = 0
    /\ pushed_posts = {}
    /\ db_call = NoCall
    /\ IdleTxn
    /\ IdleThrottle
    /\ IdleScore
    /\ IdleWalk
    /\ IdleOut
    /\ subreddits = <<"r1">>
    /\ fp_pc = "idle"
    /\ fp_i = 0
    /\ fp_j = 0
    /\ all_posts = <<>>
    /\ counts = EmptyDict
    /\ yield_log = <<>>
    /\ posts_list = <<>>
    /\ fetched = <<>>
    /\ IdleFlatten
    /\ pc = "start"
    /\ posts = <<>>
    /\ comments = <<>>
    /\ top_posts = <<>>
    /\ top_comments = <<>>
    /\ webhook = <<>>
    /\ merged = <<>>
    /\ new_posts = <<>>
    /\ last_marked = [id \in {"A", "B"} |-> -1]
    /\ last_sent = [id \in {"A", "B"} |-> -1]
    /\ prune_cutoff = <<>>
    /\ stages = <<>>
    /\ store_error = <<>>
    /\ exit_status = <<>>

\* A Database operation raises and the run logs it and goes on to its summary.
StoreFailureSkipped(op) ==
    /\ store_error' = <<op>>
    /\ exit_status' = exit_status
    /\ pc' = "summary"
    /\ UNCHANGED <<posts, comments, top_posts, top_comments, webhook, merged,
                   new_posts, last_marked, last_sent, prune_cutoff, stages, now, db_call,
                   mergeVars, flatVars, sideVars>>

\* A Database operation of main raises (sqlite3.Error, OSError): nothing in
\* main or in Database catches it before `except Exception` at the end of
\* main, which logs it and calls sys.exit(1).
StoreFailure(op) ==
    /\ store_error' = <<op>>
    /\ exit_status' = <<1>>
    /\ pc' = "failed"
    /\ UNCHANGED <<posts, comments, top_posts, top_comments, webhook, merged,
                   new_posts, last_marked, last_sent, prune_cutoff, stages, now, db_call,
                   mergeVars, flatVars, sideVars>>

\* Time passes between two statements of a run, or between two runs.
TickRun ==
    /\ pc # "idle"
    /\ now < MaxTime
    /\ now' = now + 1
    /\ UNCHANGED <<pushed_posts, db_call, mergeVars, flatVars, runVars, sideVars>>

\* main, lines 88-105: Config(), the scraper, the analyzer, the notifier and
\* Database(db_path), whose _init_db leaves an existing table as it is.
Initialize ==
    /\ pc = "start"
    /\ \/ /\ pc' = "cleanup"
          /\ stages' = Append(stages, Stage("INIT", "run"))
          /\ UNCHANGED <<posts, comments, top_posts, top_comments, webhook,
                         merged, new_posts, last_marked, last_sent, prune_cutoff,
                         store_error, exit_status, dbVars, db_call, mergeVars,
                         flatVars, sideVars>>
       \/ /\ StoreFailure("__init__")
          /\ pushed_posts' = pushed_posts

\* db.cleanup_old_records(days=config.ttl_days)
CleanupStep ==
    /\ pc = "cleanup"
    /\ \/ /\ pushed_posts' = cleanup_old_records(pushed_posts, TtlDays, now).table
          /\ prune_cutoff' = <<now - TtlDays>>
          /\ pc' = "fetch_posts"
          /\ stages' = Append(stages, Stage("PRUNE_STORE", "run"))
          /\ UNCHANGED <<posts, comments, top_posts, top_comments, webhook,
                         merged, new_posts, last_marked, last_sent, store_error,
                         exit_status, now, db_call, mergeVars, flatVars,
                         sideVars>>
       \/ \* connect or the DELETE raises: nothing was committed; or VACUUM
          \* raises, after the DELETE was committed
          /\ StoreFailure("cleanup_old_records")
          /\ pushed_posts' \in
                 {pushed_posts, cleanup_old_records(pushed_posts, TtlDays, now).table}

\* What the GETs of one call of fetch_posts can end in, request by request.
RunServed ==
    {served \in [(DOMAIN subreddits) \X (DOMAIN Strategies) ->
                    UNION {RunOutcomes(subreddits[i]) : i \in DOMAIN subreddits}] :
         \A i \in DOMAIN subreddits, j \in DOMAIN Strategies :
             served[<<i, j>>] \in RunOutcomes(subreddits[i])}

\* posts = scraper.fetch_posts(subreddits=config.subreddits, ...)
FetchPostsStep ==
    /\ pc = "fetch_posts"
    /\ \E served \in RunServed :
           /\ posts' = fetch_posts(subreddits, served)
           /\ merged' = fetch_posts(subreddits, served)
    /\ pc' = "filter_db"
    /\ stages' = Append(stages, Stage("FETCH_MERGE", "posts"))
    /\ UNCHANGED <<comments, top_posts, top_comments, webhook, new_posts,
                   last_marked, last_sent, prune_cutoff, store_error, exit_status,
                   dbVars, db_call, mergeVars, flatVars, sideVars>>

\* posts = db.filter_new_posts(posts)
FilterDbStep ==
    /\ pc = "filter_db"
    /\ \/ /\ posts' = filter_new_posts(pushed_posts, posts)
          /\ new_posts' = filter_new_posts(pushed_posts, posts)
          /\ pc' = "filter_criteria"
          /\ stages' = Append(stages, Stage("DEDUP_FILTER", "posts"))
          /\ UNCHANGED <<comments, top_posts, top_comments, webhook, merged,
                         last_marked, last_sent, prune_cutoff, store_error, exit_status,
                         dbVars, db_call, mergeVars, flatVars, sideVars>>
       \/ /\ StoreFailure("get_pushed_ids")
          /\ pushed_posts' = pushed_posts

\* posts = [p for p in posts if meets_post_criteria(p, config)]
FilterCriteriaStep ==
    /\ pc = "filter_criteria"
    /\ posts' = SelectPosts(posts)
    /\ pc' = "fetch_comments"
    /\ stages' = Append(stages, Stage("criteria", "posts"))
    /\ UNCHANGED <<comments, top_posts, top_comments, webhook, merged, new_posts,
                   last_marked, last_sent, prune_cutoff, store_error, exit_status,
                   dbVars, db_call, mergeVars, flatVars, sideVars>>

\* comments = scraper.fetch_comments_from_posts(posts, min_score)
FetchCommentsStep ==
    /\ pc = "fetch_comments"
    /\ \E answers \in [1..Len(posts) -> CommentOutcomes] :
           comments' = FetchComments(posts, answers, MinCommentScore)
    /\ pc' = "filter_comments"
    /\ stages' = Append(stages, Stage("FETCH", "comments"))
    /\ UNCHANGED <<posts, top_posts, top_comments, webhook, merged, new_posts,
                   last_marked, last_sent, prune_cutoff, store_error, exit_status,
                   dbVars, db_call, mergeVars, flatVars, sideVars>>

\* comments = [c for c in comments if meets_comment_criteria(c, config)]
FilterCommentsStep ==
    /\ pc = "filter_comments"
    /\ comments' = SelectComments(comments)
    /\ pc' = "analyze_posts"
    /\ stages' = Append(stages, Stage("criteria", "comments"))
    /\ UNCHANGED <<posts, top_posts, top_comments, webhook, merged, new_posts,
                   last_marked, last_sent, prune_cutoff, store_error, exit_status,
                   dbVars, db_call, mergeVars, flatVars, sideVars>>

\* if posts: analyze_posts_batch, rank_post_opportunities, [:config.top_n]
AnalyzePostsStep ==
    /\ pc = "analyze_posts"
    /\ IF posts # <<>>
       THEN /\ \E results \in [1..Len(posts) -> Analyses] :
                   top_posts' = Take(Rank(AnalyzeBatch(posts, results)), TopN)
            /\ stages' = stages \o <<Stage("scoring", "posts"),
                                      Stage("RANK_TRUNCATE", "posts")>>
       ELSE /\ top_posts' = top_posts
            /\ stages' = stages
    /\ pc' = "analyze_comments"
    /\ UNCHANGED <<posts, comments, top_comments, webhook, merged, new_posts,
                   last_marked, last_sent, prune_cutoff, store_error, exit_status,
                   dbVars, db_call, mergeVars, flatVars, sideVars>>

\* if comments: analyze_comments_batch, rank_comment_opportunities, [:config.top_n]
AnalyzeCommentsStep ==
    /\ pc = "analyze_comments"
    /\ IF comments # <<>>
       THEN /\ \E results \in [1..Len(comments) -> Analyses] :
                   top_comments' = Take(Rank(AnalyzeBatch(comments, results)), TopN)
            /\ stages' = stages \o <<Stage("scoring", "comments"),
                                      Stage("RANK_TRUNCATE", "comments")>>
       ELSE /\ top_comments' = top_comments
            /\ stages' = stages
    /\ pc' = "notify"
    /\ UNCHANGED <<posts, comments, top_posts, webhook, merged, new_posts,
                   last_marked, last_sent, prune_cutoff, store_error, exit_status,
                   dbVars, db_call, mergeVars, flatVars, sideVars>>

\* if top_posts or top_comments: notifier.send_daily_report(...). The report is
\* cut into chunks and each chunk is POSTed; a RequestException is logged in
\* _send_message and the loop goes on, so the call returns either way.
\* `sent` is the record of the comments handed to the notifier that the step
\* leaves behind.
Notify(sent) ==
    /\ pc = "notify"
    /\ IF top_posts # <<>> \/ top_comments # <<>>
       THEN /\ \E n \in 1..MaxChunks : \E answers \in [1..n -> BOOLEAN] :
                   webhook' = answers
            /\ stages' = Append(stages, Stage("notify", "run"))
            /\ pc' = "mark"
       ELSE /\ webhook' = webhook
            /\ stages' = stages
            /\ pc' = "summary"
    /\ last_sent' = sent
    /\ UNCHANGED <<posts, comments, top_posts, top_comments, merged, new_posts,
                   last_marked, prune_cutoff, store_error, exit_status,
                   dbVars, db_call, mergeVars, flatVars, sideVars>>

\* The step in the runs of Spec, which keep no record of the comments sent.
NotifyStep == Notify(last_sent)

\* The record after top_comments was handed to the notifier at time `now`.
SentNow ==
    [id \in DOMAIN last_sent |->
        IF \E k \in DOMAIN top_comments : top_comments[k].post_id = id
        THEN now ELSE last_sent[id]]

\* The step in the runs of SpecSent, which record the comments sent.
NotifyRecorded == Notify(SentNow)

\* A run that marks every post it analysed, not only the selected ones.
MarkAnalysed == posts

\* The list main hands to db.mark_batch_as_pushed.
MarkArgument == top_posts

\* A run that goes back to the notifier after the mark.
MarkThenNotifyAgain ==
    /\ pc = "mark"
    /\ pushed_posts' = mark_batch_as_pushed(pushed_posts, MarkArgument, now)
    /\ last_marked' = [id \in DOMAIN last_marked |->
                          IF id \in IdsOf(MarkArgument) THEN now ELSE last_marked[id]]
    /\ pc' = "notify"
    /\ stages' = Append(stages, Stage("MARK_SEEN", "run"))
    /\ UNCHANGED <<posts, comments, top_posts, top_comments, webhook, merged,
                   new_posts, last_sent, prune_cutoff, store_error, exit_status,
                   now, db_call, mergeVars, flatVars, sideVars>>

\* db.mark_batch_as_pushed(top_posts)
MarkStep ==
    /\ pc = "mark"
    /\ \/ /\ pushed_posts' = mark_batch_as_pushed(pushed_posts, MarkArgument, now)
          /\ last_marked' = [id \in DOMAIN last_marked |->
                                IF id \in IdsOf(MarkArgument) THEN now
                                ELSE last_marked[id]]
          /\ pc' = "summary"
          /\ stages' = Append(stages, Stage("MARK_SEEN", "run"))
          /\ UNCHANGED <<posts, comments, top_posts, top_comments, webhook,
                         merged, new_posts, last_sent, prune_cutoff,
                         store_error, exit_status, now, db_call, mergeVars,
                         flatVars, sideVars>>
       \/ \* connect, executemany or commit raises: nothing was committed.
          \* An empty list returns before the database is touched.
          /\ MarkArgument # <<>>
          /\ StoreFailure("mark_batch_as_pushed")
          /\ pushed_posts' = pushed_posts

\* stats = db.get_stats() and the closing log lines; main returns.
SummaryStep ==
    /\ pc = "summary"
    /\ \/ /\ pc' = "completed"
          /\ exit_status' = <<0>>
          /\ stages' = Append(stages, Stage("DONE", "run"))
          /\ UNCHANGED <<posts, comments, top_posts, top_comments, webhook,
                         merged, new_posts, last_marked, last_sent, prune_cutoff,
                         store_error, dbVars, db_call, mergeVars, flatVars,
                         sideVars>>
       \/ /\ StoreFailure("get_stats")
          /\ pushed_posts' = pushed_posts

\* The scheduler starts the next run: a new process, the same database file.
NextRun ==
    /\ pc \in {"completed", "failed"}
    /\ pc' = "start"
    /\ posts' = <<>>
    /\ comments' = <<>>
    /\ top_posts' = <<>>
    /\ top_comments' = <<>>
    /\ webhook' = <<>>
    /\ merged' = <<>>
    /\ new_posts' = <<>>
    /\ prune_cutoff' = <<>>
    /\ stages' = <<>>
    /\ store_error' = <<>>
    /\ exit_status' = <<>>
    /\ UNCHANGED <<last_marked, last_sent, dbVars, db_call, mergeVars, flatVars,
                   sideVars>>

\* The steps of a run around the notification.
OtherSteps ==
    \/ TickRun
    \/ Initialize
    \/ CleanupStep
    \/ FetchPostsStep
    \/ FilterDbStep
    \/ FilterCriteriaStep
    \/ FetchCommentsStep
    \/ FilterCommentsStep
    \/ AnalyzePostsStep
    \/ AnalyzeCommentsStep
    \/ MarkStep
    \/ SummaryStep
    \/ NextRun

Next ==
    \/ OtherSteps
    \/ NotifyStep

Spec == Init /\ [][Next]_vars

\* The same runs, with the record of the comments handed to the notifier.
NextSent ==
    \/ OtherSteps
    \/ NotifyRecorded

SpecSent == Init /\ [][NextSent]_vars

\* ------------------------------------------------------------ SpecScore
\* analyze_posts_batch, one pass of its loop at a time, on a scoring API that
\* may fail on any item.

\* What the API does for one item: the call raises ("error"), the response
\* has no text ("no_text"), the text is not JSON ("garbage"), the text is a
\* JSON value that is not an object ("scalar"), or the text is a JSON object.
Reply(kind, json) == [kind |-> kind, json |-> json]

Replies ==
    {Reply(kind, EmptyDict) : kind \in {"error", "no_text", "garbage", "scalar"}}
        \cup {Reply("json", a) :
                 a \in {Analysis(4), Analysis(8), [product_fit |-> "low"]}}

\* _parse_analysis_response(response.text): json.loads, with None for a
\* JSONDecodeError; any other exception (text is None) leaves the method.
parse_analysis_response(reply) ==
    IF reply.kind = "garbage" THEN Returned(NoAnalysis)
    ELSE IF reply.kind = "no_text" THEN Raised
    ELSE Returned(reply.json)

\* _analyze_single_post(post): None for whatever its try block raised.
analyze_single_post(reply) ==
    IF reply.kind = "error" THEN NoAnalysis
    ELSE LET result == parse_analysis_response(reply)
         IN  IF result.raised THEN NoAnalysis ELSE result.value

\* The posts a batch is made of.
BatchPost(id) == [id |-> id, subreddit |-> "r1", score |-> 1, num_comments |-> 3]

InitScore ==
    /\ now = 0
    /\ pushed_posts = {}
    /\ db_call = NoCall
    /\ IdleTxn
    /\ IdleThrottle
    /\ IdleWalk
    /\ IdleOut
    /\ batch \in UNION {[1..n -> {BatchPost("A"), BatchPost("B")}] :
                            n \in 0..MaxItems}
    /\ batch_pc = "loop"
    /\ api_replies = <<>>
    /\ analyzed_posts = <<>>
    /\ IdleMerge
    /\ IdleFlatten
    /\ IdleRun

\* The pass that stops the whole batch at the first item that fails.
AnalyzeNextAborting ==
    /\ batch_pc = "loop"
    /\ Len(api_replies) < Len(batch)
    /\ \E reply \in Replies :
           LET post     == batch[Len(api_replies) + 1]
               analysis == analyze_single_post(reply)
           IN  /\ api_replies' = Append(api_replies, reply)
               /\ IF analysis = NoAnalysis \/ reply.kind = "scalar"
                  THEN /\ analyzed_posts' = analyzed_posts
                       /\ batch_pc' = "returned"
                  ELSE /\ analyzed_posts' =
                              analyzed_posts \o AnalyzeBatch(<<post>>, <<analysis>>)
                       /\ batch_pc' = batch_pc
    /\ UNCHANGED <<batch, now, pushed_posts, db_call, txn, throttleVars,
                   mergeVars, flatVars, runVars, walkVars,
                   outVars>>

\* One pass of `for post in posts`: the try block around _analyze_single_post
\* and the test of its result; analysis.get on a value that is not a dict
\* raises and is caught by the except of the same pass.
AnalyzeNext ==
    /\ batch_pc = "loop"
    /\ Len(api_replies) < Len(batch)
    /\ \E reply \in Replies :
           LET post     == batch[Len(api_replies) + 1]
               analysis == analyze_single_post(reply)
           IN  /\ api_replies' = Append(api_replies, reply)
               /\ analyzed_posts' =
                      IF reply.kind = "scalar" THEN analyzed_posts
                      ELSE analyzed_posts \o AnalyzeBatch(<<post>>, <<analysis>>)
    /\ UNCHANGED <<batch, batch_pc, now, pushed_posts, db_call, txn,
                   throttleVars, mergeVars, flatVars, runVars, walkVars,
                   outVars>>

\* return analyzed_posts
ReturnAnalyzed ==
    /\ batch_pc = "loop"
    /\ Len(api_replies) = Len(batch)
    /\ batch_pc' = "returned"
    /\ UNCHANGED <<batch, api_replies, analyzed_posts, now, pushed_posts, db_call,
                   txn, throttleVars, mergeVars, flatVars, runVars, walkVars,
                   outVars>>

NextScore ==
    \/ AnalyzeNext
    \/ ReturnAnalyzed

SpecScore == InitScore /\ [][NextScore]_vars

\* ----------------------------------------------------------- SpecDigest
\* main, lines 159-183, for any Config.top_n: the ranked posts are cut to
\* top_n, the report is built from them, and they are marked.

\* The analysed posts of a run in rank order, n of them.
RankedPosts(n) == [k \in 1..n |-> [id |-> k, score |-> 8]]

\* `for i, post in enumerate(posts[:10], 1)`: the posts the message shows.
RenderedIds(ps) == IdsOf(Take(ps, RenderCap))

\* top_posts = analyzer.rank_post_opportunities(analyzed_posts)[:config.top_n]
InitDigest ==
    /\ now = 0
    /\ pushed_posts = {}
    /\ db_call = NoCall
    /\ IdleTxn
    /\ IdleThrottle
    /\ IdleScore
    /\ IdleWalk
    /\ IdleMerge
    /\ IdleFlatten
    /\ top_n \in 1..MaxTopN
    /\ \E n \in 0..MaxRanked : top_posts = Take(RankedPosts(n), top_n)
    /\ rendered = {}
    /\ message = <<>>
    /\ chunks = <<>>
    /\ out_pc = "notify"
    /\ pc = "idle"
    /\ posts = <<>>
    /\ comments = <<>>
    /\ top_comments = <<>>
    /\ webhook = <<>>
    /\ merged = <<>>
    /\ new_posts = <<>>
    /\ last_marked = [id \in {} |-> -1]
    /\ last_sent = [id \in {} |-> -1]
    /\ prune_cutoff = <<>>
    /\ stages = <<>>
    /\ store_error = <<>>
    /\ exit_status = <<>>

\* if top_posts or top_comments: notifier.send_daily_report(top_posts,
\* top_comments), which builds the message with _build_report_message.
BuildReport ==
    /\ out_pc = "notify"
    /\ IF top_posts # <<>>
       THEN /\ rendered' = RenderedIds(top_posts)
            /\ out_pc' = "mark"
       ELSE /\ rendered' = rendered
            /\ out_pc' = "done"
    /\ UNCHANGED <<top_n, message, chunks, dbVars, db_call, txn, throttleVars,
                   scoreVars, walkVars, mergeVars, flatVars, runVars>>

\* db.mark_batch_as_pushed(top_posts)
MarkDigest ==
    /\ out_pc = "mark"
    /\ pushed_posts' = mark_batch_as_pushed(pushed_posts, top_posts, now)
    /\ out_pc' = "done"
    /\ UNCHANGED <<top_n, rendered, message, chunks, now, db_call, txn,
                   throttleVars, scoreVars, walkVars, mergeVars, flatVars,
                   runVars>>

NextDigest ==
    \/ BuildReport
    \/ MarkDigest

SpecDigest == InitDigest /\ [][NextDigest]_vars

\* ------------------------------------------------------------ SpecSplit
\* DiscordNotifier._split_message on messages given by the lengths of their
\* lines: lengths that are short, around half of max_length, around
\* max_length, and beyond Discord's own limit.
LineLengths == {0, 1, 950, 1899, 1900, 2500}

Messages == UNION {[1..n -> LineLengths] : n \in 1..MaxLines}

RECURSIVE SumOf(_)
SumOf(lens) == IF lens = <<>> THEN 0 ELSE Head(lens) + SumOf(Tail(lens))

\* len(message) for message.split('\n') == lines.
MessageLength(lines) == SumOf(lines) + (Len(lines) - 1)

RECURSIVE SplitLines(_, _, _, _)
\* The for loop of _split_message and the statement after it: current_chunk
\* has length `current`, `done` holds the lengths of the chunks appended.
SplitLines(lines, current, done, limit) ==
    IF lines = <<>>
    THEN IF current > 0 THEN Append(done, current) ELSE done
    ELSE LET line == Head(lines)
         IN  IF current + line + 1 <= limit
             THEN SplitLines(Tail(lines), current + line + 1, done, limit)
             ELSE SplitLines(Tail(lines), line + 1,
                             IF current > 0 THEN Append(done, current) ELSE done,
                             limit)

\* DiscordNotifier._split_message(message, max_length): the chunk lengths.
split_message(lines, limit) ==
    IF MessageLength(lines) <= limit THEN <<MessageLength(lines)>>
    ELSE SplitLines(lines, 0, <<>>, limit)

InitSplit ==
    /\ now = 0
    /\ pushed_posts = {}
    /\ db_call = NoCall
    /\ IdleTxn
    /\ IdleThrottle
    /\ IdleScore
    /\ IdleWalk
    /\ IdleMerge
    /\ IdleFlatten
    /\ IdleRun
    /\ top_n = 0
    /\ rendered = {}
    /\ message \in Messages
    /\ chunks = <<>>
    /\ out_pc = "split"

\* chunks = self._split_message(message, 1900)
SplitStep ==
    /\ out_pc = "split"
    /\ chunks' = split_message(message, max_length)
    /\ out_pc' = "post"
    /\ UNCHANGED <<top_n, rendered, message, dbVars, db_call, txn, throttleVars,
                   scoreVars, walkVars, mergeVars, flatVars, runVars>>

\* `for chunk in chunks`: one requests.post per chunk, whose RequestException
\* is logged and the loop goes on.
PostChunk ==
    /\ out_pc = "post"
    /\ Len(webhook) < Len(chunks)
    /\ \E answer \in BOOLEAN : webhook' = Append(webhook, answer)
    /\ UNCHANGED <<top_n, rendered, message, chunks, out_pc, dbVars, db_call,
                   txn, throttleVars, scoreVars, walkVars, mergeVars, flatVars,
                   pc, posts, comments, top_posts, top_comments, merged,
                   new_posts, last_marked, last_sent, prune_cutoff, stages,
                   store_error, exit_status>>

NextSplit ==
    \/ SplitStep
    \/ PostChunk

SpecSplit == InitSplit /\ [][NextSplit]_vars

\* =============================================================== claims

\* C1: post ids are written to the dedup store only after the notifier has
\* confirmed the delivery: when a POST of the report failed, no post of the
\* run is marked as seen.
C1_MarkOnlyAfterDelivery ==
    pc \in {"summary", "completed"} /\ webhook # <<>> /\ ~Delivered =>
        \A k \in DOMAIN top_posts :
            top_posts[k].id \notin get_pushed_ids(pushed_posts)

\* C2: a post id marked after its delivery is excluded by the dedup filter of
\* every later run for as long as the mark is at most TtlDays old; and the
\* filter run again on the merged posts of a run after its mark returns none of
\* the posts that were delivered.
C2_NoReNotification ==
    /\ pc = "filter_criteria" =>
           \A id \in DOMAIN last_marked :
               last_marked[id] >= 0 /\ now - last_marked[id] <= TtlDays =>
                   id \notin IdsOf(posts)
    /\ pc = "summary" /\ webhook # <<>> =>
           IdsOf(filter_new_posts(pushed_posts, merged)) \cap IdsOf(top_posts) = {}

\* A later run fetched a post again that an earlier run had marked less than
\* TtlDays before, and its dedup filter dropped it.
C2_Witness ==
    /\ pc = "filter_criteria"
    /\ \E id \in DOMAIN last_marked :
           /\ last_marked[id] >= 0
           /\ now > last_marked[id]
           /\ now - last_marked[id] <= TtlDays
           /\ id \in IdsOf(merged)
           /\ id \notin IdsOf(posts)

\* C3: a post that passed the dedup filter of a run but is not in the list
\* handed to the notifier has no row when the run ends, so the filter still
\* lets it through; and rows are only ever added by the mark of a run that
\* called the notifier, for the posts handed to it.
C3_OnlyDeliveredMarked ==
    /\ [](pc \in {"summary", "completed"} =>
            \A k \in DOMAIN new_posts :
                new_posts[k].id \notin IdsOf(top_posts) =>
                    /\ new_posts[k].id \notin get_pushed_ids(pushed_posts)
                    /\ filter_new_posts(pushed_posts, <<new_posts[k]>>)
                           = <<new_posts[k]>>)
    /\ [][\A r \in pushed_posts' \ pushed_posts :
              /\ pc = "mark"
              /\ webhook # <<>>
              /\ r.post_id \in IdsOf(top_posts)]_vars

\* A run ended in which two posts passed the dedup filter and the criteria, one
\* was delivered and marked, and the other, cut off by top_n, has no row.
C3_Witness ==
    /\ pc = "completed"
    /\ Len(new_posts) = 2
    /\ Len(posts) = 2
    /\ Len(top_posts) = 1
    /\ Delivered
    /\ \E k \in DOMAIN posts :
           /\ posts[k].id \notin IdsOf(top_posts)
           /\ posts[k].id \notin get_pushed_ids(pushed_posts)
    /\ IdsOf(top_posts) \subseteq get_pushed_ids(pushed_posts)

\* The number of ancestor comments of entry n.
RECURSIVE AncestorsOf(_, _)
AncestorsOf(t, n) ==
    IF t[n].parent = 0 THEN 0 ELSE 1 + AncestorsOf(t, t[n].parent)

\* Entry n and all its ancestors are comments (kind t1).
RECURSIVE CommentChain(_, _)
CommentChain(t, n) ==
    /\ t[n].kind = "t1"
    /\ t[n].parent # 0 => CommentChain(t, t[n].parent)

\* Entry n passes the inclusion filters itself.
PassesFilters(t, n) ==
    /\ t[n].score >= MinCommentScore
    /\ t[n].body \notin {"[deleted]", "[removed]", ""}

\* C4: rejection is per node, not per subtree: every comment that passes the
\* inclusion filters is emitted, at the depth of its ancestor count, whether or
\* not its ancestors pass them; so the grandchild under a low-score middle node
\* is emitted with depth 2.
C4_RejectionPerNode ==
    fl_pc = "done" =>
        \A n \in DOMAIN tree :
            CommentChain(tree, n) /\ PassesFilters(tree, n) =>
                \E k \in DOMAIN flat :
                    flat[k].id = n /\ flat[k].depth = AncestorsOf(tree, n)

\* ------------------------------------------------- what the forum served
\* The post entries of an answer, read off the raw payload.
ServedEntries(outcome) ==
    IF ~outcome.ok THEN {}
    ELSE LET children == outcome.json.data.children
         IN  {e \in {children[k] : k \in DOMAIN children} : e.kind = "t3"}

ServedIds(outcome) == {e.data.id : e \in ServedEntries(outcome)}

\* The record the payload holds for id.
ServedPost(outcome, id) ==
    LET e == CHOOSE x \in ServedEntries(outcome) : x.data.id = id
    IN  [id |-> e.data.id, subreddit |-> e.data.subreddit, score |-> e.data.score,
         num_comments |-> e.data.num_comments]

\* The requests, so far, whose payload held id.
RequestsWith(id) == {k \in DOMAIN fetched : id \in ServedIds(fetched[k].outcome)}

MaxOf(S) == CHOOSE x \in S : \A y \in S : y <= x

\* The records of list L with this id.
RecordsOf(L, id) == {k \in DOMAIN L : L[k].id = id}

\* The subreddit with index i has left the loop of fetch_posts.
SourceDone(i) == i < fp_i \/ fp_pc \in {"return", "done"}

\* L holds, for every id served so far, exactly one record, with the field
\* values of the last request whose payload held the id.
LastWins(L) ==
    \A id \in PostIds :
        RequestsWith(id) # {} =>
            /\ Cardinality(RecordsOf(L, id)) = 1
            /\ \A k \in RecordsOf(L, id) :
                   L[k] = ServedPost(fetched[MaxOf(RequestsWith(id))].outcome, id)

\* C5: an id returned by two or more strategies has exactly one record in the
\* merged output, with the field values of the last strategy, in the order hot,
\* rising, top, new in which they are fetched, whose payload contained the id.
C5_LastStrategyWins ==
    /\ LastWins(all_posts)
    /\ fp_pc = "done" => LastWins(posts_list)

\* fetch_posts has returned; hot and top of one subreddit both served an id,
\* with different scores, and the returned record carries the score of top.
C5_Witness ==
    /\ fp_pc = "done"
    /\ \E k1 \in DOMAIN fetched, k2 \in DOMAIN fetched, id \in PostIds :
           /\ fetched[k1].sub = fetched[k2].sub
           /\ fetched[k1].strategy = "hot"
           /\ fetched[k2].strategy = "top"
           /\ id \in ServedIds(fetched[k1].outcome) \cap ServedIds(fetched[k2].outcome)
           /\ ServedPost(fetched[k1].outcome, id) # ServedPost(fetched[k2].outcome, id)
           /\ k2 = MaxOf(RequestsWith(id))
           /\ \E n \in DOMAIN posts_list :
                  posts_list[n] = ServedPost(fetched[k2].outcome, id)

\* C6: the merge key is scoped per source: a post served by a subreddit is in
\* the returned list as a record of that subreddit, whatever the other
\* subreddits served under the same id.
C6_KeyScopedPerSource ==
    fp_pc = "done" =>
        \A k \in DOMAIN fetched :
            \A id \in ServedIds(fetched[k].outcome) :
                \E n \in DOMAIN posts_list :
                    /\ posts_list[n].id = id
                    /\ posts_list[n].subreddit = subreddits[fetched[k].sub]

\* C7: a strategy whose fetch failed contributes nothing (all_posts is as it
\* was, and its recorded count is 0, in counts while its subreddit is being
\* fetched and in the log line afterwards); the other strategies of the
\* subreddit are all fetched and their posts merged; and the call runs to its
\* end through every subreddit.
C7_FailedStrategyContributesZero ==
    \A k \in DOMAIN fetched :
        ~fetched[k].outcome.ok =>
            LET i == fetched[k].sub
                others == {m \in DOMAIN fetched : fetched[m].sub = i /\ m # k}
            IN  /\ fetched[k].after = fetched[k].before
                /\ ~SourceDone(i) => counts[fetched[k].strategy] = 0
                /\ SourceDone(i) =>
                       /\ Len(yield_log) >= i
                       /\ yield_log[i].subreddit = subreddits[i]
                       /\ yield_log[i][fetched[k].strategy] = 0
                       /\ {fetched[m].strategy : m \in others \cup {k}}
                              = {Strategies[j] : j \in DOMAIN Strategies}
                       /\ \A m \in others :
                              ServedIds(fetched[m].outcome) \subseteq IdsOf(all_posts)
                /\ fp_pc = "done" =>
                       /\ Len(fetched) = Len(subreddits) * Len(Strategies)
                       /\ Len(yield_log) = Len(subreddits)
                       /\ posts_list = all_posts

\* The call has returned; one strategy of the first subreddit failed, the other
\* three served posts, and those posts are in the returned list.
C7_Witness ==
    /\ fp_pc = "done"
    /\ \E k \in DOMAIN fetched :
           /\ fetched[k].sub = 1
           /\ fetched[k].strategy = "rising"
           /\ ~fetched[k].outcome.ok
           /\ yield_log[1].rising = 0
           /\ \A m \in DOMAIN fetched :
                  fetched[m].sub = 1 /\ m # k => fetched[m].outcome.ok
           /\ yield_log[1].hot = 2 /\ yield_log[1].new = 2
           /\ Len(posts_list) >= 2

\* C8: the merged output holds exactly one record for each distinct id that any
\* payload so far held, and no other; merging a payload that was already
\* merged again leaves the item set as it is (and merging the latest one again
\* leaves the whole dict as it is).
C8_MergeIdempotent ==
    /\ IdsOf(all_posts) = UNION {ServedIds(fetched[k].outcome) : k \in DOMAIN fetched}
    /\ Len(all_posts) = Cardinality(IdsOf(all_posts))
    /\ \A k \in DOMAIN fetched :
           LET again == MergePosts(all_posts,
                                   parse_posts(get_json(fetched[k].outcome)).value)
           IN  /\ IdsOf(again) = IdsOf(all_posts)
               /\ Len(again) = Len(all_posts)
               /\ k = Len(fetched) => again = all_posts
    /\ fp_pc = "done" => posts_list = all_posts

\* The first subreddit served {A,B} (hot), {B,C} (rising), {C,D} (top) and its
\* new listing failed: the merged ids are {A,B,C,D}, one record each.
C8_Witness ==
    /\ fp_pc = "log"
    /\ fp_i = 1
    /\ Len(fetched) = 4
    /\ ServedIds(fetched[1].outcome) = {"A", "B"}
    /\ ServedIds(fetched[2].outcome) = {"B", "C"}
    /\ ServedIds(fetched[3].outcome) = {"C", "D"}
    /\ ~fetched[4].outcome.ok
    /\ IdsOf(all_posts) = {"A", "B", "C", "D"}
    /\ Len(all_posts) = 4
    /\ counts = [hot |-> 2, rising |-> 2, top |-> 2, new |-> 0]


\* C9: prune with a TTL of N days run at time `at` deletes exactly the rows whose
\* pushed_at is older than at - N and returns their count; every other row is
\* kept unchanged. A row marked N+1 days ago is gone, one marked N-1 days ago
\* remains.
C9_PruneExact ==
    db_call.op = "cleanup" =>
        LET cutoff == db_call.at - db_call.days
            old    == {r \in db_call.before : r.pushed_at < cutoff}
        IN  /\ pushed_posts = db_call.before \ old
            /\ db_call.ret = <<Cardinality(old)>>
            /\ \A r \in db_call.before :
                   /\ r.pushed_at = db_call.at - (db_call.days + 1)
                          => r \notin pushed_posts
                   /\ r.pushed_at = db_call.at - (db_call.days - 1)
                          => r \in pushed_posts

\* A prune that found a row marked N+1 days ago, a row marked exactly N days ago
\* and a row marked N-1 days ago.
C9_Witness ==
    /\ db_call.op = "cleanup"
    /\ \E r1 \in db_call.before, r2 \in pushed_posts :
           /\ r1.pushed_at = db_call.at - (db_call.days + 1)
           /\ r1 \notin pushed_posts
           /\ r2.pushed_at = db_call.at - (db_call.days - 1)
    /\ db_call.ret = <<1>>

\* C10: marking an id that already has a row leaves exactly one row for the id,
\* stamped with the time of the latest mark; the other rows are untouched;
\* marking again at the same time changes nothing; and a prune of N days run
\* while the latest mark is at most N days old keeps the id, whatever the age
\* of the row it replaced.
C10_MarkUpsert ==
    db_call.op \in {"mark", "mark_batch"} =>
        /\ \A id \in db_call.ids :
               {r \in pushed_posts : r.post_id = id} = {Row(id, db_call.at)}
        /\ {r \in pushed_posts : r.post_id \notin db_call.ids}
               = {r \in db_call.before : r.post_id \notin db_call.ids}
        /\ \A id \in db_call.ids :
               mark_as_pushed(pushed_posts, id, db_call.at) = pushed_posts
        /\ db_call.op = "mark_batch" =>
               mark_batch_as_pushed(pushed_posts, db_call.ret, db_call.at)
                   = pushed_posts
        /\ \A days \in 1..MaxDays, id \in db_call.ids :
               now - db_call.at <= days =>
                   id \in get_pushed_ids(
                              cleanup_old_records(pushed_posts, days, now).table)

\* An id re-marked over a row that a prune run now would have removed.
C10_Witness ==
    /\ db_call.op \in {"mark", "mark_batch"}
    /\ \E r0 \in db_call.before, days \in 1..MaxDays :
           /\ r0.post_id \in db_call.ids
           /\ r0.pushed_at < now - days
           /\ now - db_call.at <= days
           /\ Row(r0.post_id, db_call.at) \in pushed_posts
           /\ r0 \notin pushed_posts

\* C11: in every run cleanup_old_records has completed before filter_new_posts
\* reads the table, so the rows the filter reads (and the ids it filters with)
\* hold no record older than the cutoff of that run, now - ttl_days at the
\* prune.
C11_PruneBeforeFilter ==
    pc \in {"filter_db", "filter_criteria"} =>
        /\ Len(prune_cutoff) = 1
        /\ \A r \in pushed_posts : ~(r.pushed_at < prune_cutoff[1])
        /\ pc = "filter_criteria" =>
               new_posts = SeqFilterIds(merged,
                   {r.post_id : r \in {x \in pushed_posts :
                                          x.pushed_at >= prune_cutoff[1]}})

\* The filter of a run has just run; a post marked by an earlier run more than
\* ttl_days before the prune of this run was fetched again, its row is gone
\* and the filter let it through.
C11_Witness ==
    /\ pc = "filter_criteria"
    /\ Len(prune_cutoff) = 1
    /\ \E id \in DOMAIN last_marked :
           /\ last_marked[id] >= 0
           /\ last_marked[id] < prune_cutoff[1]
           /\ id \notin get_pushed_ids(pushed_posts)
           /\ id \in IdsOf(new_posts)

\* The place of a stage in the order INIT, PRUNE_STORE, FETCH+MERGE,
\* DEDUP_FILTER, criteria, scoring, RANK_TRUNCATE, notify, MARK_SEEN, DONE.
StageRank(name) ==
    CASE name = "INIT" -> 1
      [] name = "PRUNE_STORE" -> 2
      [] name \in {"FETCH_MERGE", "FETCH"} -> 3
      [] name = "DEDUP_FILTER" -> 4
      [] name = "criteria" -> 5
      [] name = "scoring" -> 6
      [] name = "RANK_TRUNCATE" -> 7
      [] name = "notify" -> 8
      [] name = "MARK_SEEN" -> 9
      [] name = "DONE" -> 10

\* The stages of the run as one item class went through them: its own stages
\* and those of the run as a whole.
StagesOf(class) == SelectSeq(stages, LAMBDA e : e.class \in {class, "run"})

\* Every stage of L comes later in the order than the one before it.
InOrder(L) ==
    \A k \in 1..(Len(L) - 1) : StageRank(L[k].stage) < StageRank(L[k + 1].stage)

\* C12: a run is a linear state machine: the stages it executes, for the run
\* as a whole and for each item class, follow the order INIT, PRUNE_STORE,
\* FETCH+MERGE, DEDUP_FILTER, criteria/scoring, RANK_TRUNCATE, notify,
\* MARK_SEEN, DONE, none of them twice and none after a later one; the run
\* starts with INIT, prunes before it fetches, and marks only right after
\* the notifier was called.
C12_LinearRun ==
    /\ InOrder(StagesOf("posts"))
    /\ InOrder(StagesOf("comments"))
    /\ stages # <<>> => stages[1].stage = "INIT"
    /\ \A k \in DOMAIN stages :
           /\ stages[k].stage = "MARK_SEEN" => stages[k - 1].stage = "notify"
           /\ stages[k].stage = "DONE" => k = Len(stages) /\ pc = "completed"
           /\ stages[k].stage \in {"FETCH_MERGE", "FETCH"} =>
                  \E j \in 1..(k - 1) : stages[j].stage = "PRUNE_STORE"

\* A run is over in which posts and comments both went through every stage.
C12_Witness ==
    /\ pc = "completed"
    /\ Len(StagesOf("posts")) = 10
    /\ Len(StagesOf("comments")) = 9
    /\ Len(stages) = 14

\* Stage `name` of item class `class` was executed in this run.
Executed(name, class) == \E k \in DOMAIN stages : stages[k] = Stage(name, class)

\* C13: posts and comments are independent pipelines: posts that came back from
\* the forum but are all gone after the dedup or the criteria filter do not
\* prevent comments from being fetched (some answer of the forum makes the
\* comment fetch return comments); a class with items left is scored and
\* ranked whatever is left of the other class; and the run reaches DONE.
C13_IndependentPipelines ==
    /\ pc = "fetch_comments" /\ merged # <<>> /\ posts = <<>> =>
           \E answers \in [1..Len(posts) -> CommentOutcomes] :
               FetchComments(posts, answers, MinCommentScore) # <<>>
    /\ pc \in {"notify", "mark", "summary", "completed"} =>
           /\ posts # <<>> => Executed("RANK_TRUNCATE", "posts")
           /\ comments # <<>> => Executed("RANK_TRUNCATE", "comments")
           /\ posts = <<>> => ~Executed("scoring", "posts")
           /\ comments = <<>> => ~Executed("scoring", "comments")
    /\ pc = "completed" => Executed("DONE", "run")

\* The last stage the run executed, "" when it has executed none.
LastStage == IF stages = <<>> THEN "" ELSE stages[Len(stages)].stage

\* C14: a failure of a dedup-store operation (initialisation, prune, read of
\* the seen ids, batch mark, stats) is fatal: the run stands where the
\* operation failed, with the stages before it executed and none after it, it
\* never reaches DONE, and the process ends with exit status 1; a run that
\* ends with status 0 had no store failure.
C14_StoreFailureFatal ==
    /\ store_error # <<>> =>
           /\ pc = "failed"
           /\ exit_status = <<1>>
           /\ ~Executed("DONE", "run")
           /\ store_error[1] = "__init__" => stages = <<>>
           /\ store_error[1] = "cleanup_old_records" => LastStage = "INIT"
           /\ store_error[1] = "get_pushed_ids" =>
                  LastStage = "FETCH_MERGE" /\ posts = merged /\ comments = <<>>
           /\ store_error[1] = "mark_batch_as_pushed" => LastStage = "notify"
           /\ store_error[1] = "get_stats" =>
                  LastStage \in {"MARK_SEEN", "criteria", "RANK_TRUNCATE"}
    /\ exit_status = <<0>> => store_error = <<>> /\ pc = "completed"
    /\ pc = "failed" <=> exit_status = <<1>>

\* The read of the seen ids failed in a run that had fetched posts: the run
\* stopped there, nothing was filtered, scored or sent.
C14_Witness ==
    /\ store_error = <<"get_pushed_ids">>
    /\ pc = "failed"
    /\ exit_status = <<1>>
    /\ merged # <<>>
    /\ webhook = <<>>
    /\ top_posts = <<>>

\* C15: a crash at any statement of a store operation leaves the file
\* consistent: no id has more than one row, every row is an (id, timestamp)
\* pair that a committed operation wrote, and after a crash the file holds
\* exactly what it held before the crashed operation began, so nothing of a
\* partially applied batch (or of an uncommitted prune) is visible to the
\* reader that comes next; a committed batch is there whole.
C15_CrashConsistent ==
    /\ \A r1 \in pushed_posts, r2 \in pushed_posts :
           r1.post_id = r2.post_id => r1 = r2
    /\ \A r \in pushed_posts :
           /\ DOMAIN r = {"post_id", "pushed_at"}
           /\ r.post_id \in StoreIds
           /\ r.pushed_at \in 0..now
    /\ db_call.op \in {"crash", "begin"} => pushed_posts = db_call.before
    /\ db_call.op = "mark_batch" =>
           pushed_posts = mark_batch_as_pushed(db_call.before, db_call.ret,
                                               db_call.at)
    /\ db_call.op \in {"cleanup", "crash in vacuum"} =>
           pushed_posts = cleanup_old_records(db_call.before, db_call.days,
                                              db_call.at).table

\* The process died in the middle of a batch of two posts: the connection had
\* written the first row and not the second, and the file holds neither.
C15_Witness ==
    /\ db_call.op = "crash"
    /\ Len(db_call.ret) = 1
    /\ \E id \in db_call.ids :
           /\ id # db_call.ret[1].id
           /\ Row(id, db_call.at) \notin pushed_posts
    /\ db_call.ret[1].id \notin get_pushed_ids(pushed_posts)
    /\ pushed_posts = db_call.before

\* C16: _get_json never raises to its caller: whatever the GET ended in
\* (connection error, timeout, non-2xx status, undecodable body), the call
\* returns, with {} when the GET failed and the decoded body otherwise; the
\* caller parses {} to no posts and is free to make its next request.
C16_GetJsonNeverRaises ==
    /\ \A t \in threads : rl_pc[t] # "raised"
    /\ \A k \in DOMAIN requests :
           /\ ~requests[k].result.raised
           /\ requests[k].outcome.ok =>
                  requests[k].result.value = requests[k].outcome.json
           /\ ~requests[k].outcome.ok =>
                  /\ requests[k].result.value = EmptyDict
                  /\ parse_posts(requests[k].result.value) = Returned(<<>>)

\* Three calls were made one after the other: the first ended in a non-2xx
\* status, the second in an undecodable body, and the third, made after
\* them, returned a listing.
C16_Witness ==
    /\ Len(requests) = 3
    /\ requests[1].outcome = FailureOf("HTTPError")
    /\ requests[2].outcome = FailureOf("JSONDecodeError")
    /\ requests[3].outcome.ok
    /\ requests[3].done
    /\ requests[3].result.value # EmptyDict
    /\ requests[2].result = Returned(EmptyDict)

\* C17: between the completion of a request and the start of the next one at
\* least REQUEST_DELAY passes.
C17_GapFromCompletion ==
    \A k \in 1..(Len(requests) - 1) :
        requests[k + 1].start - requests[k].end >= REQUEST_DELAY

\* C18: when two threads call _get_json on the same scraper, any two requests
\* that went out are at least REQUEST_DELAY apart.
C18_ThreadSafeThrottle ==
    \A k \in 1..(Len(requests) - 1) :
        requests[k + 1].start - requests[k].start >= REQUEST_DELAY

\* C19: a malformed entry in a listing payload never fails the batch: every
\* well-formed post entry of that payload is in all_posts after the payload
\* was handled, and every strategy of every subreddit is still fetched.
C19_MalformedEntryDropped ==
    /\ \A k \in DOMAIN fetched :
           LET children == fetched[k].outcome.json.data.children
           IN  \A n \in DOMAIN children :
                   LET one == ParseItem(children[n])
                   IN  ~one.raised /\ one.value # <<>> =>
                           one.value[1].id \in IdsOf(fetched[k].after)
    /\ fp_pc = "done" => Len(fetched) = Len(subreddits) * Len(Strategies)

\* The items handled so far whose scoring gave a JSON object with a score of
\* at least MinOpportunity, by position.
Qualifying ==
    {n \in DOMAIN api_replies :
        /\ api_replies[n].kind = "json"
        /\ "score" \in DOMAIN api_replies[n].json
        /\ api_replies[n].json.score >= MinOpportunity}

\* C20: a failure of the scoring API on one item drops only that item: the
\* batch result holds, in input order, exactly the items handled so far whose
\* scoring succeeded with a qualifying score, each with its analysis, and the
\* batch returns only after every item was handled.
C20_PerItemFailure ==
    /\ Len(analyzed_posts) = Cardinality(Qualifying)
    /\ \A n \in Qualifying :
           LET place == Cardinality({m \in Qualifying : m <= n})
           IN  /\ analyzed_posts[place].id = batch[n].id
               /\ analyzed_posts[place].score = api_replies[n].json.score
    /\ batch_pc = "returned" => Len(api_replies) = Len(batch)

\* A batch of three whose first item failed in the API, whose second item
\* got an unparseable response and whose third item was scored 8: the batch
\* returned the third item alone.
C20_Witness ==
    /\ batch_pc = "returned"
    /\ Len(batch) = 3
    /\ api_replies[1].kind = "error"
    /\ api_replies[2].kind = "garbage"
    /\ api_replies[3] = Reply("json", Analysis(8))
    /\ Len(analyzed_posts) = 1
    /\ analyzed_posts[1].id = batch[3].id

\* C21: every comment the flattener has emitted carries as depth the number
\* of its ancestor comments in the reply tree (0 for a top-level reply),
\* whatever depth its payload carries.
C21_DepthIsAncestorCount ==
    \A k \in DOMAIN flat :
        flat[k].depth = AncestorsOf(tree, flat[k].id)

\* The walk is over; it emitted a comment with two ancestors whose payload
\* said depth 0, and a top-level comment whose payload said depth 9.
C21_Witness ==
    /\ fl_pc = "done"
    /\ descents = <<1, 2>>
    /\ \E k \in DOMAIN flat :
           /\ flat[k].depth = 2
           /\ tree[flat[k].id].depth = 0
    /\ \E k \in DOMAIN flat :
           /\ flat[k].depth = 0
           /\ tree[flat[k].id].depth = 9

\* C22: the flattener terminates on every reply tree, and a comment whose
\* replies field is absent, empty or a non-dictionary sentinel is a leaf: no
\* recursive call is made on it, and no comment is lost: at the end every
\* comment of the tree, the later siblings of leaves included, was emitted
\* once.
C22_LeavesEndTheWalk ==
    /\ [](\A k \in DOMAIN descents :
               ChildrenOf(tree, descents[k]) # <<>>)
    /\ [](fl_pc = "done" =>
               /\ Len(flat) = Len(tree)
               /\ {flat[k].id : k \in DOMAIN flat} = DOMAIN tree)
    /\ <>(fl_pc = "done")

\* The walk is over on a tree of three comments: a leaf with a sentinel in
\* its replies field, then a leaf without the field, then their later
\* sibling, which was emitted last.
C22_Witness ==
    /\ fl_pc = "done"
    /\ Len(tree) = 3
    /\ \A n \in 1..3 : tree[n].parent = 0
    /\ tree[1].replies = "sentinel"
    /\ tree[2].replies = "absent"
    /\ tree[3].replies = "empty"
    /\ Len(flat) = 3
    /\ flat[3].id = 3
    /\ descents = <<>>

\* The place of the post with this id in a list of posts with distinct ids.
PlaceOf(ps, id) == CHOOSE k \in DOMAIN ps : ps[k].id = id

\* C23: filter_new_posts returns, in input order, exactly the input posts
\* whose id has no row in the store at the time of the call: none with a row
\* is kept, none without a row is dropped, each is returned once and as it
\* was, and two returned posts stand in the order they had in the input.
C23_FilterExact ==
    pc = "dedup_done" =>
        /\ \A k \in DOMAIN new_posts :
               /\ new_posts[k].id \notin {r.post_id : r \in pushed_posts}
               /\ \E m \in DOMAIN merged : merged[m] = new_posts[k]
        /\ \A m \in DOMAIN merged :
               merged[m].id \notin {r.post_id : r \in pushed_posts} =>
                   Cardinality({k \in DOMAIN new_posts :
                                   new_posts[k] = merged[m]}) = 1
        /\ \A k1, k2 \in DOMAIN new_posts :
               k1 < k2 => PlaceOf(merged, new_posts[k1].id)
                              < PlaceOf(merged, new_posts[k2].id)

\* The merged list was A, B, C, D, the store held B alone, and the filter
\* returned A, C, D.
C23_Witness ==
    /\ pc = "dedup_done"
    /\ [k \in DOMAIN merged |-> merged[k].id] = <<"A", "B", "C", "D">>
    /\ {r.post_id : r \in pushed_posts} = {"B"}
    /\ [k \in DOMAIN new_posts |-> new_posts[k].id] = <<"A", "C", "D">>

\* C26: the enriched record scoring produces keeps every field of the
\* original item with its original value; scoring only adds fields.
C26_EnrichmentKeepsFields ==
    \A n \in Qualifying :
        LET place == Cardinality({m \in Qualifying : m <= n})
        IN  \A field \in DOMAIN batch[n] :
                analyzed_posts[place][field] = batch[n][field]

\* C25: a comment handed to the notifier in one run is not handed to it again
\* by a later run while the TTL of its first delivery is open (the forum
\* serves at most one comment per post, so a comment is known by its post).
C25_CommentNotRedelivered ==
    [][pc = "notify" /\ pc' = "mark" =>
           \A k \in DOMAIN top_comments :
               \/ last_sent[top_comments[k].post_id] < 0
               \/ now - last_sent[top_comments[k].post_id] > TtlDays]_vars

\* C24: every post id a run writes to the store belongs to a post the report
\* message of that run shows, for every value of top_n.
C24_MarkedWereRendered ==
    out_pc = "done" => get_pushed_ids(pushed_posts) \subseteq rendered

\* C27: every chunk _split_message returns, and so every payload posted to
\* the webhook, is at most max_length long.
C27_ChunkWithinLimit ==
    \A k \in DOMAIN chunks : chunks[k] <= max_length

====
